---------------------------- MODULE Spec2Model ----------------------------
(***************************************************************************)
(* tailwind-expand: the alias resolver (expand), the variant prefixer      *)
(* (applyVariantPrefix), the class-token expander (expandToken), the       *)
(* scanner, the parser of @expand blocks and the Babel, Vite and PostCSS   *)
(* plugins.                                                                *)
(* Strings are TLA+ strings; the JavaScript string operations the code     *)
(* uses (slice, indexOf, lastIndexOf, split, join, startsWith, the regular *)
(* expressions) are defined character by character below.                  *)
(***************************************************************************)
EXTENDS Integers, Sequences, FiniteSets, TLC

(* ------------------------------------------------------------------ *)
(* Bounds of the model                                                  *)
(* ------------------------------------------------------------------ *)

\* Total number of tokens over all raw alias values of one RawAliasMap.
MaxTotal == 3

\* Number of segments of a variant prefix.
MaxPrefixSegs == 2

\* Number of leading `segment:` pieces a utility already carries.
MaxUtilSegs == 2

(* ------------------------------------------------------------------ *)
(* JavaScript string operations                                         *)
(* ------------------------------------------------------------------ *)

Upper == {"A","B","C","D","E","F","G","H","I","J","K","L","M",
          "N","O","P","Q","R","S","T","U","V","W","X","Y","Z"}

Lower == {"a","b","c","d","e","f","g","h","i","j","k","l","m",
          "n","o","p","q","r","s","t","u","v","w","x","y","z"}

Digit == {"0","1","2","3","4","5","6","7","8","9"}

\* The characters the regular expression class \s matches, as far as the
\* model's inputs use them.
Whitespace == {" ", "\t", "\n"}

\* s[i] for a 1-based index i.
CharAt(s, i) == SubSeq(s, i, i)

\* String.prototype.slice(from, to) with 0-based from and exclusive to,
\* both already within 0..length.
Slice(s, from, to) == SubSeq(s, from + 1, to)

\* String.prototype.slice(from) with 0-based from.
SliceFrom(s, from) == SubSeq(s, from + 1, Len(s))

RECURSIVE IndexFrom(_, _, _)
IndexFrom(s, c, i) ==
    IF i > Len(s) THEN -1
    ELSE IF CharAt(s, i) = c THEN i - 1
    ELSE IndexFrom(s, c, i + 1)

\* String.prototype.indexOf(c) for a one-character c: 0-based, -1 if absent.
IndexOf(s, c) == IndexFrom(s, c, 1)

RECURSIVE LastIndexFrom(_, _, _)
LastIndexFrom(s, c, i) ==
    IF i < 1 THEN -1
    ELSE IF CharAt(s, i) = c THEN i - 1
    ELSE LastIndexFrom(s, c, i - 1)

\* String.prototype.lastIndexOf(c) for a one-character c.
LastIndexOf(s, c) == LastIndexFrom(s, c, Len(s))

\* String.prototype.startsWith(c) for a one-character c.
StartsWith(s, c) == Len(s) >= 1 /\ CharAt(s, 1) = c

RECURSIVE SplitOnFrom(_, _, _, _)
SplitOnFrom(s, c, i, cur) ==
    IF i > Len(s) THEN <<cur>>
    ELSE IF CharAt(s, i) = c
         THEN <<cur>> \o SplitOnFrom(s, c, i + 1, "")
         ELSE SplitOnFrom(s, c, i + 1, cur \o CharAt(s, i))

\* String.prototype.split(c) for a one-character separator c.
SplitOn(s, c) == SplitOnFrom(s, c, 1, "")

RECURSIVE SplitWsFrom(_, _, _, _)
SplitWsFrom(s, i, cur, inWs) ==
    IF i > Len(s) THEN <<cur>>
    ELSE IF CharAt(s, i) \in Whitespace
         THEN IF inWs THEN SplitWsFrom(s, i + 1, "", TRUE)
              ELSE <<cur>> \o SplitWsFrom(s, i + 1, "", TRUE)
         ELSE SplitWsFrom(s, i + 1, cur \o CharAt(s, i), FALSE)

\* String.prototype.split(/\s+/): a run of whitespace is one separator; a
\* leading or trailing run leaves an empty piece, and "" splits to <<"">>.
SplitWs(s) == SplitWsFrom(s, 1, "", FALSE)

RECURSIVE Join(_, _)
\* Array.prototype.join(sep).
Join(seq, sep) ==
    IF Len(seq) = 0 THEN ""
    ELSE IF Len(seq) = 1 THEN seq[1]
    ELSE seq[1] \o sep \o Join(Tail(seq), sep)

\* /^[A-Z][a-zA-Z0-9]*$/.test(s)
IsCamelCase(s) ==
    /\ Len(s) >= 1
    /\ CharAt(s, 1) \in Upper
    /\ \A i \in 2..Len(s) : CharAt(s, i) \in (Upper \cup Lower \cup Digit)

\* Whether x is an element of the sequence seq.
InSeq(seq, x) == \E i \in 1..Len(seq) : seq[i] = x

\* Mutant: the delete is missing.
WithoutKept(seq, x) == seq

\* The sequence seq without its elements equal to x (Set.prototype.delete on
\* an insertion-ordered set).
RECURSIVE Without(_, _)
Without(seq, x) ==
    IF Len(seq) = 0 THEN <<>>
    ELSE IF Head(seq) = x THEN Without(Tail(seq), x)
    ELSE <<Head(seq)>> \o Without(Tail(seq), x)

\* [...new Set(seq)]: the first occurrence of each element, in order.
RECURSIVE Dedup(_)
Dedup(seq) ==
    IF Len(seq) = 0 THEN <<>>
    ELSE <<Head(seq)>> \o Dedup(Without(Tail(seq), Head(seq)))

(* ------------------------------------------------------------------ *)
(* State                                                                *)
(* ------------------------------------------------------------------ *)

VARIABLES
    \* expand(rawAliases, options)
    rawAliases,     \* the RawAliasMap argument: alias name -> raw value
    mergerFn,       \* options.mergerFn: "none" when absent, else its name
    expanded,       \* const expanded: alias name -> resolved value
    resolving,      \* const resolving: insertion-ordered Set, as a sequence
    frames,         \* the active calls of resolve, outermost first
    iterated,       \* the keys the for-of loop has already taken
    pc,             \* "loop" | "done" (expanded returned) | "threw"
    thrown,         \* the names of the thrown error's chain, in order
    mergerCalls,    \* the calls made to mergerFn in this run, in order
    prevResult,     \* the map returned by the previous run on these inputs
    steps,          \* the steps this call of expand has taken so far
    \* applyVariantPrefix(variantPrefix, utility)
    variantPrefix, utility, prefixed, reprefixed, pcPrefix,
    \* expandToken(token, aliases, expandedAliases)
    token, tokenParts, aliases, expandedAliases, tokenResult, pcToken,
    \* expandClassString(classString, aliases, expandedAliases)
    classString,    \* the class string argument
    classResult,    \* the string the call returned
    classResultOther, \* what a call with another auxiliary set returned
    expandedBefore, \* the contents of expandedAliases before the call
    pcClass,
    \* collectVariantAliases(code, aliases, variantUtilities)
    code,           \* the text of the source file
    variantUtilities, \* the caller's set
    found,          \* the matches of the call, in order
    pcScan,
    \* extractFromRoot(root, filename)
    root,           \* the parsed document: its top-level nodes
    extracted,      \* the outcome: the map returned or the error thrown
    pcParse,
    \* babelPlugin(_, options) and the module's cache
    css,            \* the content of the file at options.cssPath
    cache,          \* const cache: cache key -> alias map
    optionsMergerFn, \* options.mergerFn of the last initialisation
    visitorAliases, \* the outcome of the last initialisation
    pcBabel,
    \* expandAliases(aliases), the resolver of the first Vite plugin
    legacyAliases,  \* the aliases argument
    legacyKeys,     \* Object.keys(aliases): the keys in insertion order
    legacyExpanded, \* the map returned
    pcLegacy,
    \* stripExpandBlocks(css)
    stripPieces,    \* the pieces the text was written in, in order
    stripCss,       \* the css argument
    stripResult,    \* the string returned
    pcStrip,
    \* tailwindExpandVite(options): the closure of one plugin instance
    pluginVariantUtilities, \* const variantUtilities
    pluginExpandedAliases,  \* let expandedAliases
    rootDir,        \* let rootDir
    expandCssFiles, \* const expandCssFiles
    server,         \* let server: "null" or the dev server
    onDisk,         \* the files that exist (existsSync)
    calls,          \* the calls made to the plugin so far, in order
    transformed,    \* what the last transform returned
    restartCalls,   \* the calls of server.restart by the last hot update
    hotReturn,      \* what the last handleHotUpdate returned
    \* postcssPlugin(options): one plugin and its runs
    sourceText,     \* the text of the source file under rootDir
    runs,           \* the documents processed so far, in order
    allUtilities,   \* const allUtilities at the end of the last run
    processed       \* the outcome of the last run

expVars == <<rawAliases, mergerFn, expanded, resolving, frames, iterated,
             pc, thrown, mergerCalls, prevResult, steps>>

pfxVars == <<variantPrefix, utility, prefixed, reprefixed, pcPrefix>>

tokVars == <<token, tokenParts, aliases, expandedAliases, tokenResult,
             pcToken>>

clsVars == <<classString, classResult, classResultOther, expandedBefore,
             pcClass>>

scanVars == <<code, variantUtilities, found, pcScan>>

parseVars == <<root, extracted, pcParse>>

babelVars == <<css, cache, optionsMergerFn, visitorAliases, pcBabel>>

legacyVars == <<legacyAliases, legacyKeys, legacyExpanded, pcLegacy>>

\* The variables of the components that stand apart from the core: none
\* of the steps of the core reads or writes them.
stripVars == <<stripPieces, stripCss, stripResult, pcStrip>>

viteVars == <<pluginVariantUtilities, pluginExpandedAliases, rootDir,
              expandCssFiles, server, onDisk, calls, transformed,
              restartCalls, hotReturn>>

postcssVars == <<sourceText, runs, allUtilities, processed>>

laterVars == <<legacyVars, stripVars, viteVars, postcssVars>>

vars == <<expVars, pfxVars, tokVars, clsVars, scanVars, parseVars,
          babelVars, laterVars>>

\* What the steps of one component leave alone: the variables of the
\* other components.
besidesExpand == <<pfxVars, tokVars, clsVars, scanVars, parseVars, babelVars,
                  laterVars>>

besidesPrefix == <<expVars, tokVars, clsVars, scanVars, parseVars, babelVars,
                  laterVars>>

besidesToken == <<expVars, pfxVars, clsVars, scanVars, parseVars, babelVars,
                  laterVars>>

besidesClass == <<expVars, pfxVars, token, tokenParts, tokenResult, pcToken,
                  scanVars, parseVars, babelVars,
                  laterVars>>

besidesScan == <<expVars, pfxVars, token, tokenParts, expandedAliases,
                 tokenResult, pcToken, clsVars, parseVars, babelVars,
                  laterVars>>

besidesParse == <<expVars, pfxVars, tokVars, clsVars, scanVars, babelVars,
                  laterVars>>

besidesBabel == <<expVars, pfxVars, tokVars, clsVars, scanVars, parseVars,
                  laterVars>>

\* The variables of the core.
coreVars == <<expVars, pfxVars, tokVars, clsVars, scanVars, parseVars,
              babelVars>>

besidesLegacy == <<coreVars, stripVars, viteVars, postcssVars>>

besidesStrip == <<coreVars, legacyVars, viteVars, postcssVars>>

besidesVite == <<coreVars, legacyVars, stripVars, postcssVars>>

besidesPostcss == <<coreVars, legacyVars, stripVars, viteVars>>

\* The value of a variable that holds nothing yet (JavaScript undefined).
Undefined == "undefined"

(* ------------------------------------------------------------------ *)
(* Inputs of expand                                                     *)
(* ------------------------------------------------------------------ *)

\* Alias names a RawAliasMap of the model may define.
Names == {"A", "B", "Cc"}

\* Tokens a raw alias value of the model is made of: the names (each one
\* an alias reference when it is a key of the map, a CamelCase utility
\* when it is not) and a plain utility.
RawTokens == Names \cup {"x"}

\* The merge callbacks of the model: none, and the callback of the test
\* "applies merge function to each alias independently".
MergerFns == {"none", "uniq"}

\* The token sequences of length n.
TokSeqs(n) == [1..n -> RawTokens]

\* The whitespace an author puts between two tokens of a value: a space,
\* or a line break with its indentation.
Separators == {" ", "\n  "}

\* The raw values with n tokens.
RawValues(n) == {Join(ts, sep) : ts \in TokSeqs(n), sep \in Separators}

RECURSIVE RawMaps(_, _)
\* Every RawAliasMap over the names of the sequence `names` whose values
\* hold at most `budget` tokens together.
RawMaps(names, budget) ==
    IF Len(names) = 0 THEN {<<>>}
    ELSE UNION {
           { (Head(names) :> v) @@ rest :
                v \in RawValues(n), rest \in RawMaps(Tail(names), budget - n) }
           : n \in 0..budget }

\* The non-empty key sets of the model, each in a fixed enumeration order.
KeyLists == {<<"A">>, <<"B">>, <<"Cc">>, <<"A", "B">>, <<"A", "Cc">>,
             <<"B", "Cc">>, <<"A", "B", "Cc">>}

(* ------------------------------------------------------------------ *)
(* expand                                                               *)
(* ------------------------------------------------------------------ *)

\* The mock of the expander test: [...new Set(s.split(' '))].join(' ').
MergeUniq(s) == Join(Dedup(SplitOn(s, " ")), " ")

RECURSIVE Reverse(_)
Reverse(seq) ==
    IF Len(seq) = 0 THEN <<>> ELSE Append(Reverse(Tail(seq)), Head(seq))

\* A second merge callback, in the manner of twMerge: of the utilities
\* that conflict (here: that are equal) the last one is kept.
MergeLast(s) == Join(Reverse(Dedup(Reverse(SplitOn(s, " ")))), " ")

\* Mutant: the merge is applied whether or not a mergerFn was given.
ApplyMergerAlways(fn, result) == MergeUniq(result)

\* mergerFn ? mergerFn(result) : result
ApplyMerger(fn, result) ==
    IF fn = "none" THEN result
    ELSE IF fn = "last" THEN MergeLast(result)
    ELSE MergeUniq(result)

\* Mutant: the joined result is memoized and the merged one returned.
MemoizeJoined(value, result) == result

\* expanded[aliasName] = mergerFn ? mergerFn(result) : result: what is
\* memoized is the merged value `value`, not the joined `result`.
Memoize(value, result) == value

\* Mutant: a name that is being resolved is returned as it is (the
\* circular reference is tolerated).
ResolveOutcomeLenient(aliasName) ==
    IF aliasName \in DOMAIN expanded THEN "cached"
    ELSE IF aliasName \notin DOMAIN rawAliases THEN "utility"
    ELSE IF InSeq(resolving, aliasName) THEN "utility"
    ELSE "recurse"

\* Mutant: the circular-dependency check is missing.
ResolveOutcomeNoCycleCheck(aliasName) ==
    IF aliasName \in DOMAIN expanded THEN "cached"
    ELSE IF aliasName \notin DOMAIN rawAliases THEN "utility"
    ELSE "recurse"

\* Mutant: the memoized value is not looked up.
ResolveOutcomeNoMemo(aliasName) ==
    IF aliasName \notin DOMAIN rawAliases THEN "utility"
    ELSE IF InSeq(resolving, aliasName) THEN "circular"
    ELSE "recurse"

\* The branch resolve(aliasName) takes on entry.
ResolveOutcome(aliasName) ==
    IF aliasName \in DOMAIN expanded THEN "cached"
    ELSE IF aliasName \notin DOMAIN rawAliases THEN "utility"
    ELSE IF InSeq(resolving, aliasName) THEN "circular"
    ELSE "recurse"

\* Mutant: the pattern asks for two characters or more ([...]+ for [...]*).
IsAliasTokenTwoChars(tok) == IsCamelCase(tok) /\ Len(tok) >= 2

\* Whether the tokens.map callback hands the token to resolve.
IsAliasToken(tok) == IsCamelCase(tok)

\* resolving.add(aliasName) and the split of its raw value: a new call
\* of resolve becomes the innermost one.
Enter(aliasName) ==
    /\ resolving' = IF InSeq(resolving, aliasName) THEN resolving
                    ELSE Append(resolving, aliasName)
    /\ frames' = Append(frames, [name   |-> aliasName,
                                 tokens |-> SplitWs(rawAliases[aliasName]),
                                 idx    |-> 1,
                                 out    |-> <<>>])

\* The innermost call of resolve.
Top == frames[Len(frames)]

\* The innermost call with `piece` appended to its resolvedTokens.
Emit(piece) ==
    [frames EXCEPT ![Len(frames)] =
        [@ EXCEPT !.idx = @ + 1, !.out = Append(@, piece)]]

AtToken ==
    /\ pc = "loop"
    /\ Len(frames) > 0
    /\ Top.idx <= Len(Top.tokens)

CurToken == Top.tokens[Top.idx]

\* for (const aliasName of Object.keys(rawAliases)) resolve(aliasName),
\* for a name that is already in expanded: resolve returns at once.
IterateCached ==
    /\ steps' = steps + 1
    /\ pc = "loop" /\ Len(frames) = 0
    /\ \E k \in DOMAIN rawAliases \ iterated :
          /\ ResolveOutcome(k) = "cached"
          /\ iterated' = iterated \cup {k}
    /\ UNCHANGED <<rawAliases, mergerFn, expanded, resolving, frames, pc,
                   thrown, mergerCalls, prevResult>>
    /\ UNCHANGED besidesExpand

\* The loop's call of resolve for a name not yet expanded.
IterateResolve ==
    /\ steps' = steps + 1
    /\ pc = "loop" /\ Len(frames) = 0
    /\ \E k \in DOMAIN rawAliases \ iterated :
          /\ ResolveOutcome(k) = "recurse"
          /\ iterated' = iterated \cup {k}
          /\ Enter(k)
    /\ UNCHANGED <<rawAliases, mergerFn, expanded, pc, thrown, mergerCalls,
                   prevResult>>
    /\ UNCHANGED besidesExpand

\* A token that fails the CamelCase test is kept as it is.
TokenUtility ==
    /\ steps' = steps + 1
    /\ AtToken
    /\ ~IsAliasToken(CurToken)
    /\ frames' = Emit(CurToken)
    /\ UNCHANGED <<rawAliases, mergerFn, expanded, resolving, iterated, pc,
                   thrown, mergerCalls, prevResult>>
    /\ UNCHANGED besidesExpand

\* resolve(token) returns the memoized value.
TokenCached ==
    /\ steps' = steps + 1
    /\ AtToken
    /\ IsAliasToken(CurToken)
    /\ ResolveOutcome(CurToken) = "cached"
    /\ frames' = Emit(expanded[CurToken])
    /\ UNCHANGED <<rawAliases, mergerFn, expanded, resolving, iterated, pc,
                   thrown, mergerCalls, prevResult>>
    /\ UNCHANGED besidesExpand

\* resolve(token) for a CamelCase token that is no key: returned as it is.
TokenNotAlias ==
    /\ steps' = steps + 1
    /\ AtToken
    /\ IsAliasToken(CurToken)
    /\ ResolveOutcome(CurToken) = "utility"
    /\ frames' = Emit(CurToken)
    /\ UNCHANGED <<rawAliases, mergerFn, expanded, resolving, iterated, pc,
                   thrown, mergerCalls, prevResult>>
    /\ UNCHANGED besidesExpand

\* resolve(token) for a name that is being resolved: the error is thrown
\* through every active call, and expand returns nothing.
TokenCircular ==
    /\ steps' = steps + 1
    /\ AtToken
    /\ IsAliasToken(CurToken)
    /\ ResolveOutcome(CurToken) = "circular"
    /\ thrown' = Append(resolving, CurToken)
    /\ pc' = "threw"
    /\ UNCHANGED <<rawAliases, mergerFn, expanded, resolving, frames,
                   iterated, mergerCalls, prevResult>>
    /\ UNCHANGED besidesExpand

\* resolve(token) for a key not yet expanded: a nested call.
TokenRecurse ==
    /\ steps' = steps + 1
    /\ AtToken
    /\ IsAliasToken(CurToken)
    /\ ResolveOutcome(CurToken) = "recurse"
    /\ Enter(CurToken)
    /\ UNCHANGED <<rawAliases, mergerFn, expanded, iterated, pc, thrown,
                   mergerCalls, prevResult>>
    /\ UNCHANGED besidesExpand

\* The end of a call of resolve: resolving.delete, the join, the merge,
\* the memoization, and the return of the value to the caller.
ResolveReturn ==
    /\ steps' = steps + 1
    /\ pc = "loop"
    /\ Len(frames) > 0
    /\ Top.idx > Len(Top.tokens)
    /\ LET result == Join(Top.out, " ")
           value  == ApplyMerger(mergerFn, result)
           rest   == SubSeq(frames, 1, Len(frames) - 1)
       IN /\ resolving' = Without(resolving, Top.name)
          /\ expanded' = (Top.name :> Memoize(value, result)) @@ expanded
          /\ mergerCalls' = IF mergerFn = "none" THEN mergerCalls
                            ELSE Append(mergerCalls,
                                        [alias |-> Top.name, arg |-> result])
          /\ frames' = IF Len(rest) = 0 THEN rest
                       ELSE [rest EXCEPT ![Len(rest)] =
                               [@ EXCEPT !.idx = @ + 1,
                                         !.out = Append(@, value)]]
    /\ UNCHANGED <<rawAliases, mergerFn, iterated, pc, thrown, prevResult>>
    /\ UNCHANGED besidesExpand

\* return expanded
ReturnExpanded ==
    /\ steps' = steps + 1
    /\ pc = "loop" /\ Len(frames) = 0
    /\ iterated = DOMAIN rawAliases
    /\ pc' = "done"
    /\ UNCHANGED <<rawAliases, mergerFn, expanded, resolving, frames,
                   iterated, thrown, mergerCalls, prevResult>>
    /\ UNCHANGED besidesExpand

\* expand is called again with the same rawAliases and options; the map
\* the last call returned is kept for comparison.
CallAgain ==
    /\ steps' = 0
    /\ pc = "done"
    /\ prevResult' = [returned |-> TRUE, map |-> expanded]
    /\ expanded' = <<>>
    /\ resolving' = <<>>
    /\ frames' = <<>>
    /\ iterated' = {}
    /\ mergerCalls' = <<>>
    /\ pc' = "loop"
    /\ UNCHANGED <<rawAliases, mergerFn, thrown>>
    /\ UNCHANGED besidesExpand

InitExpand ==
    /\ \E ks \in KeyLists : rawAliases \in RawMaps(ks, MaxTotal)
    /\ mergerFn \in MergerFns
    /\ expanded = <<>>
    /\ resolving = <<>>
    /\ frames = <<>>
    /\ iterated = {}
    /\ pc = "loop"
    /\ thrown = <<>>
    /\ mergerCalls = <<>>
    /\ prevResult = [returned |-> FALSE, map |-> <<>>]
    /\ steps = 0

IdleExpand ==
    /\ rawAliases = <<>>
    /\ mergerFn = "none"
    /\ expanded = <<>>
    /\ resolving = <<>>
    /\ frames = <<>>
    /\ iterated = {}
    /\ pc = "idle"
    /\ thrown = <<>>
    /\ mergerCalls = <<>>
    /\ prevResult = [returned |-> FALSE, map |-> <<>>]
    /\ steps = 0

IdlePrefix ==
    /\ variantPrefix = "" /\ utility = ""
    /\ prefixed = Undefined /\ reprefixed = Undefined
    /\ pcPrefix = "idle"

IdleToken ==
    /\ token = "" /\ aliases = <<>> /\ expandedAliases = {}
    /\ tokenParts = [important |-> "", prefix |-> "", name |-> ""]
    /\ tokenResult = Undefined
    /\ pcToken = "idle"

IdleClass ==
    /\ classString = ""
    /\ classResult = Undefined /\ classResultOther = Undefined
    /\ expandedBefore = {}
    /\ pcClass = "idle"

IdleScan ==
    /\ code = "" /\ variantUtilities = {} /\ found = <<>>
    /\ pcScan = "idle"

IdleParse ==
    /\ root = <<>>
    /\ extracted = Undefined
    /\ pcParse = "idle"

IdleBabel ==
    /\ css = <<>> /\ cache = <<>>
    /\ optionsMergerFn = "none"
    /\ visitorAliases = Undefined
    /\ pcBabel = "idle"

\* None of the components added after the first three is in use.
IdleLegacy ==
    /\ legacyAliases = <<>> /\ legacyKeys = <<>>
    /\ legacyExpanded = Undefined
    /\ pcLegacy = "idle"

IdleStrip ==
    /\ stripPieces = <<>> /\ stripCss = ""
    /\ stripResult = Undefined
    /\ pcStrip = "idle"

IdleVite ==
    /\ pluginVariantUtilities = {} /\ pluginExpandedAliases = <<>>
    /\ rootDir = "" /\ expandCssFiles = {} /\ server = "null"
    /\ onDisk = {} /\ calls = <<>>
    /\ transformed = Undefined
    /\ restartCalls = 0 /\ hotReturn = Undefined

IdlePostcss ==
    /\ sourceText = "" /\ runs = <<>> /\ allUtilities = {}
    /\ processed = Undefined

\* None of the components that stand apart from the core is in use.
IdleLater == IdleLegacy /\ IdleStrip /\ IdleVite /\ IdlePostcss

\* None of the components added after the first three is in use.
IdleRest == IdleClass /\ IdleScan /\ IdleParse /\ IdleBabel /\ IdleLater

(* ------------------------------------------------------------------ *)
(* applyVariantPrefix                                                   *)
(* ------------------------------------------------------------------ *)

\* Mutant: one leading variant is removed at most (if for while).
RECURSIVE PeelOnce(_, _)
PeelOnce(prefixVariants, result) ==
    LET colonIdx == IndexOf(result, ":")
    IN IF colonIdx = -1 THEN result
       ELSE IF Slice(result, 0, colonIdx) \in prefixVariants
            THEN SliceFrom(result, colonIdx + 1)
            ELSE result

RECURSIVE PeelVariants(_, _)
\* The while (true) loop: the leading `variant:` of result is cut off as
\* long as the variant is one of the prefix's.
PeelVariants(prefixVariants, result) ==
    LET colonIdx == IndexOf(result, ":")
    IN IF colonIdx = -1 THEN result
       ELSE IF Slice(result, 0, colonIdx) \in prefixVariants
            THEN PeelVariants(prefixVariants, SliceFrom(result, colonIdx + 1))
            ELSE result

\* Mutant: the prefix is put in front without deduplication.
ApplyVariantPrefixStacked(prefix, util) == prefix \o util

\* applyVariantPrefix(variantPrefix, utility)
ApplyVariantPrefix(prefix, util) ==
    IF prefix = "" THEN util
    ELSE LET prefixVariants ==
                {SplitOn(Slice(prefix, 0, Len(prefix) - 1), ":")[i] :
                    i \in 1..Len(SplitOn(Slice(prefix, 0, Len(prefix) - 1), ":"))}
         IN prefix \o PeelVariants(prefixVariants, util)

\* The variants the prefixes of the model are made of.
PrefixSegs == {"hover", "dark"}

\* The variants a utility of the model may carry.
UtilSegs == {"hover", "dark", "before"}

\* What follows the variants of a utility: a plain utility, a utility
\* named like a variant, and the empty piece a split can leave.
UtilRests == {"w-0", "hover", ""}

\* seg1:seg2:...: for every sequence of at most n segments of S.
RECURSIVE Chains(_, _)
Chains(S, n) ==
    IF n = 0 THEN {""}
    ELSE {""} \cup {seg \o ":" \o rest : seg \in S, rest \in Chains(S, n - 1)}

\* The canonical variant prefixes of the model.
Prefixes == Chains(PrefixSegs, MaxPrefixSegs)

\* The utilities of the model.
Utilities == {lead \o rest : lead \in Chains(UtilSegs, MaxUtilSegs),
                             rest \in UtilRests}

InitPrefix ==
    /\ variantPrefix \in Prefixes
    /\ utility \in Utilities
    /\ prefixed = Undefined /\ reprefixed = Undefined
    /\ pcPrefix = "input"

\* applyVariantPrefix(variantPrefix, utility) is called.
ApplyPrefix ==
    /\ pcPrefix = "input"
    /\ prefixed' = ApplyVariantPrefix(variantPrefix, utility)
    /\ pcPrefix' = "applied"
    /\ UNCHANGED <<variantPrefix, utility, reprefixed>>
    /\ UNCHANGED besidesPrefix

\* applyVariantPrefix is called with the same prefix on its own result.
ReapplyPrefix ==
    /\ pcPrefix = "applied"
    /\ reprefixed' = ApplyVariantPrefix(variantPrefix, prefixed)
    /\ pcPrefix' = "reapplied"
    /\ UNCHANGED <<variantPrefix, utility, prefixed>>
    /\ UNCHANGED besidesPrefix

(* ------------------------------------------------------------------ *)
(* expandToken                                                          *)
(* ------------------------------------------------------------------ *)

\* The token without its leading "!".
WorkingToken(tok) == IF StartsWith(tok, "!") THEN SliceFrom(tok, 1) ELSE tok

\* importantPrefix
ImportantPrefix(tok) == IF StartsWith(tok, "!") THEN "!" ELSE ""

\* variantPrefix: everything up to and including the last colon.
TokenVariantPrefix(tok) ==
    LET lastColonIndex == LastIndexOf(WorkingToken(tok), ":")
    IN IF lastColonIndex # -1
       THEN Slice(WorkingToken(tok), 0, lastColonIndex + 1)
       ELSE ""

\* Mutant: a "!" that follows the last colon is stripped as well.
TokenAliasNameAfterBang(tok) ==
    LET lastColonIndex == LastIndexOf(WorkingToken(tok), ":")
        rest == IF lastColonIndex # -1
                THEN SliceFrom(WorkingToken(tok), lastColonIndex + 1)
                ELSE WorkingToken(tok)
    IN IF StartsWith(rest, "!") THEN SliceFrom(rest, 1) ELSE rest

\* aliasName: what follows the last colon.
TokenAliasName(tok) ==
    LET lastColonIndex == LastIndexOf(WorkingToken(tok), ":")
    IN IF lastColonIndex # -1
       THEN SliceFrom(WorkingToken(tok), lastColonIndex + 1)
       ELSE WorkingToken(tok)

\* !aliases[aliasName] is false: the name is a key and its value is not
\* the empty string.
Truthy(map, name) == name \in DOMAIN map /\ map[name] # ""

\* The test that lets expandToken expand the token.
IsKnownAlias(tok, map) ==
    IsCamelCase(TokenAliasName(tok)) /\ Truthy(map, TokenAliasName(tok))

\* The string expandToken(token, aliases, expandedAliases) returns.
ExpandToken(tok, map) ==
    IF ~IsKnownAlias(tok, map) THEN tok
    ELSE LET utilities == SplitWs(map[TokenAliasName(tok)])
         IN Join([i \in 1..Len(utilities) |->
                    ImportantPrefix(tok)
                      \o ApplyVariantPrefix(TokenVariantPrefix(tok),
                                            utilities[i])], " ")

\* expandedAliases after the call: expandedAliases.add(token).
TrackExpanded(tok, map, set) ==
    IF IsKnownAlias(tok, map) THEN set \cup {tok} ELSE set

\* The ResolvedAliasMaps of the model, each as expand returns it:
\* for the raw map of the expander test, for a stylesheet with an empty
\* @apply (Empty) and an alias that names it (Card: "Empty text-sm"), and
\* for an alias whose utilities carry variants.
AliasMaps ==
    { [Button |-> "text-sm inline-flex"],
      [Button |-> "text-sm", Empty |-> "", Card |-> " text-sm"],
      [Button |-> "bg-primary hover:bg-primary/90"] }

\* What a class token of the model ends with.
TokenNames == {"Button", "Card", "Empty", "Unknown", "text-sm", "-Button",
               "!Button"}

\* The variants a class token of the model may carry.
TokenSegs == {"lg", "hover"}

\* The contents of the caller's set before the call.
PriorSets == {{}, {"Button"}}

InitToken ==
    /\ tokenParts \in [important : {"", "!"},
                       prefix : Chains(TokenSegs, MaxPrefixSegs),
                       name : TokenNames]
    /\ token = tokenParts.important \o tokenParts.prefix \o tokenParts.name
    /\ aliases \in AliasMaps
    /\ expandedAliases \in PriorSets
    /\ tokenResult = Undefined
    /\ pcToken = "input"

\* expandToken(token, aliases, expandedAliases) is called.
CallExpandToken ==
    /\ pcToken = "input"
    /\ tokenResult' = ExpandToken(token, aliases)
    /\ expandedAliases' = TrackExpanded(token, aliases, expandedAliases)
    /\ pcToken' = "expanded"
    /\ UNCHANGED <<token, tokenParts, aliases>>
    /\ UNCHANGED besidesToken

(* ------------------------------------------------------------------ *)
(* expandClassString                                                    *)
(* ------------------------------------------------------------------ *)

\* Number of tokens of a class string of the model.
MaxClassTokens == 2

\* classString.split(/\s+/).filter(Boolean)
ClassTokens(str) == SelectSeq(SplitWs(str), LAMBDA t : t # "")

\* Mutant: a token that the set already holds is not expanded again.
RECURSIVE MapExpandTokenOnce(_, _, _)
MapExpandTokenOnce(tokens, map, set) ==
    IF Len(tokens) = 0 THEN [out |-> <<>>, set |-> set]
    ELSE LET tok  == Head(tokens)
             rest == MapExpandTokenOnce(Tail(tokens), map,
                                        TrackExpanded(tok, map, set))
         IN [out |-> <<IF tok \in set THEN tok ELSE ExpandToken(tok, map)>>
                       \o rest.out,
             set |-> rest.set]

\* tokens.map((token) => expandToken(token, aliases, expandedAliases)):
\* the calls are made in order on the one set; `out` is the array of
\* their results and `set` the set after the last call.
RECURSIVE MapExpandToken(_, _, _)
MapExpandToken(tokens, map, set) ==
    IF Len(tokens) = 0 THEN [out |-> <<>>, set |-> set]
    ELSE LET tok  == Head(tokens)
             rest == MapExpandToken(Tail(tokens), map,
                                    TrackExpanded(tok, map, set))
         IN [out |-> <<ExpandToken(tok, map)>> \o rest.out,
             set |-> rest.set]

\* expandClassString(classString, aliases, expandedAliases): the string
\* it returns and the set it leaves.
ExpandClassString(str, map, set) ==
    LET r == MapExpandToken(ClassTokens(str), map, set)
    IN [value |-> Join(r.out, " "), set |-> r.set]

\* The ResolvedAliasMaps of the class strings of the model: those of the
\* tokens, and the one expand returns for a stylesheet with an empty
\* @apply (Empty) and an alias made of it alone (Blank: "Empty Empty").
ClassAliasMaps == AliasMaps \cup { [Empty |-> "", Blank |-> " "] }

\* The tokens the class strings of the model are made of.
ClassTokenPool == {"Button", "lg:Button", "!Button", "Card", "Blank",
                   "Empty", "px-4", "-Button", "Unknown"}

\* The whitespace between two tokens of a class string.
ClassSeparators == {" ", "\n  "}

\* The class strings of the model: at most MaxClassTokens tokens, with or
\* without a leading blank.
ClassStrings ==
    UNION { { lead \o Join(ts, sep) :
                ts \in [1..n -> ClassTokenPool],
                sep \in ClassSeparators, lead \in {"", " "} }
            : n \in 0..MaxClassTokens }

InitClass ==
    /\ classString \in ClassStrings
    /\ aliases \in ClassAliasMaps
    /\ expandedAliases \in PriorSets
    /\ expandedBefore = expandedAliases
    /\ classResult = Undefined /\ classResultOther = Undefined
    /\ pcClass = "input"
    /\ token = "" /\ tokenResult = Undefined /\ pcToken = "idle"
    /\ tokenParts = [important |-> "", prefix |-> "", name |-> ""]

\* expandClassString(classString, aliases, expandedAliases) is called.
CallExpandClassString ==
    /\ pcClass = "input"
    /\ LET r == ExpandClassString(classString, aliases, expandedAliases)
       IN /\ classResult' = r.value
          /\ expandedAliases' = r.set
    /\ pcClass' = "expanded"
    /\ UNCHANGED <<classString, aliases, classResultOther, expandedBefore>>
    /\ UNCHANGED besidesClass

\* The same class string is expanded with another auxiliary set, as the
\* visitor does for the next element.
CallWithOtherSet ==
    /\ pcClass = "expanded"
    /\ \E other \in PriorSets :
          classResultOther' = ExpandClassString(classString, aliases,
                                                other).value
    /\ pcClass' = "compared"
    /\ UNCHANGED <<classString, aliases, expandedAliases, classResult,
                   expandedBefore>>
    /\ UNCHANGED besidesClass

(* ------------------------------------------------------------------ *)
(* collectVariantAliases                                                *)
(* ------------------------------------------------------------------ *)

\* Number of class tokens in a source text of the model.
MaxScanTokens == 2

\* [a-z0-9-]
Kebab == Lower \cup Digit \cup {"-"}

\* [a-zA-Z0-9]
AlphaNum == Upper \cup Lower \cup Digit

RECURSIVE SkipWhile(_, _, _)
\* The first position from i on (1-based) whose character is not in
\* class, Len(s) + 1 if there is none: where a greedy class* stops.
SkipWhile(s, i, class) ==
    IF i > Len(s) THEN Len(s) + 1
    ELSE IF CharAt(s, i) \in class THEN SkipWhile(s, i + 1, class)
    ELSE i

\* [a-z][a-z0-9-]*: tried at position i: the position after its colon,
\* 0 if it does not match there.
SegmentEnd(s, i) ==
    IF i <= Len(s) /\ CharAt(s, i) \in Lower
    THEN LET j == SkipWhile(s, i + 1, Kebab)
         IN IF j <= Len(s) /\ CharAt(s, j) = ":" THEN j + 1 ELSE 0
    ELSE 0

RECURSIVE SegmentsEnd(_, _)
\* (?:[a-z][a-z0-9-]*:)* tried at position i, greedy: the position after
\* the last segment it takes (i itself when it takes none).
SegmentsEnd(s, i) ==
    IF SegmentEnd(s, i) = 0 THEN i ELSE SegmentsEnd(s, SegmentEnd(s, i))

\* The whole pattern tried at position i: the position after the match,
\* 0 if there is none. Giving back a segment or the "!" never helps: what
\* follows would be a lower-case letter or the "!", not [A-Z].
MatchEnd(s, i) ==
    LET p == SegmentsEnd(s, i)
        q == IF p <= Len(s) /\ CharAt(s, p) = "!" THEN p + 1 ELSE p
    IN IF p = i THEN 0
       ELSE IF q <= Len(s) /\ CharAt(s, q) \in Upper
            THEN SkipWhile(s, q + 1, AlphaNum)
            ELSE 0

RECURSIVE ExecFrom(_, _)
\* variantAliasRegex.exec(code) with lastIndex = from - 1: the first
\* position from `from` on where the pattern matches, 0 if none.
ExecFrom(s, from) ==
    IF from > Len(s) THEN 0
    ELSE IF MatchEnd(s, from) # 0 THEN from
    ELSE ExecFrom(s, from + 1)

\* Mutant: the match is split at its first colon.
MatchVariantPrefixFirstColon(fullMatch) ==
    Slice(fullMatch, 0, IndexOf(fullMatch, ":") + 1)

\* variantPrefix = fullMatch.slice(0, lastColonIndex + 1)
MatchVariantPrefix(fullMatch) ==
    Slice(fullMatch, 0, LastIndexOf(fullMatch, ":") + 1)

\* aliasName: what follows the last colon, without a leading "!".
MatchAliasName(fullMatch) ==
    LET aliasName == SliceFrom(fullMatch, LastIndexOf(fullMatch, ":") + 1)
    IN IF StartsWith(aliasName, "!") THEN SliceFrom(aliasName, 1)
       ELSE aliasName

\* The body of the while loop for one match: what it adds to the set.
MatchUtilities(fullMatch, map) ==
    IF Truthy(map, MatchAliasName(fullMatch))
    THEN LET utilities == SplitWs(map[MatchAliasName(fullMatch)])
         IN {ApplyVariantPrefix(MatchVariantPrefix(fullMatch), utilities[i]) :
                i \in 1..Len(utilities)}
    ELSE {}

RECURSIVE ExecLoop(_, _, _, _)
\* while ((match = variantAliasRegex.exec(code)) !== null) { ... } from
\* lastIndex = from - 1 on: the set and the matches at the end.
ExecLoop(s, from, map, acc) ==
    LET start == ExecFrom(s, from)
    IN IF start = 0 THEN acc
       ELSE LET end       == MatchEnd(s, start)
                fullMatch == SubSeq(s, start, end - 1)
            IN ExecLoop(s, end, map,
                   [set   |-> acc.set \cup MatchUtilities(fullMatch, map),
                    found |-> Append(acc.found, fullMatch)])

\* collectVariantAliases(code, aliases, variantUtilities)
CollectVariantAliases(text, map, set) ==
    ExecLoop(text, 1, map, [set |-> set, found |-> <<>>])

\* The class tokens the source texts of the model are made of.
ScanTokens == {"lg:Button", "dark:hover:Button", "lg:!Button", "!lg:Card",
               "lg:Unknown", "hover:bg-primary", "Button", "2xl:Empty"}

\* The source texts of the model: a class attribute of at most
\* MaxScanTokens tokens.
ScanTexts ==
    UNION { { "class='" \o Join(ts, " ") \o "'" :
                ts \in [1..n -> ScanTokens] }
            : n \in 0..MaxScanTokens }

\* What the caller's set holds before the call.
ScanPriorSets == {{}, {"lg:text-sm", "md:flex"}}

InitScan ==
    /\ code \in ScanTexts
    /\ aliases \in AliasMaps
    /\ variantUtilities \in ScanPriorSets
    /\ found = <<>>
    /\ pcScan = "input"
    /\ token = "" /\ tokenResult = Undefined /\ pcToken = "idle"
    /\ tokenParts = [important |-> "", prefix |-> "", name |-> ""]
    /\ expandedAliases = {}

\* collectVariantAliases(code, aliases, variantUtilities) is called.
CallCollectVariantAliases ==
    /\ pcScan = "input"
    /\ LET r == CollectVariantAliases(code, aliases, variantUtilities)
       IN /\ variantUtilities' = r.set
          /\ found' = r.found
    /\ pcScan' = "scanned"
    /\ UNCHANGED <<code, aliases>>
    /\ UNCHANGED besidesScan

(* ------------------------------------------------------------------ *)
(* extractFromRoot: the parser of @expand blocks                        *)
(* ------------------------------------------------------------------ *)

\* Number of nodes of a document of the model: its @expand blocks, their
\* statements and their nested rules.
MaxNodes == 5

RECURSIVE TrimStart(_)
TrimStart(s) ==
    IF Len(s) >= 1 /\ CharAt(s, 1) \in Whitespace
    THEN TrimStart(SliceFrom(s, 1)) ELSE s

RECURSIVE TrimEnd(_)
TrimEnd(s) ==
    IF Len(s) >= 1 /\ CharAt(s, Len(s)) \in Whitespace
    THEN TrimEnd(Slice(s, 0, Len(s) - 1)) ELSE s

\* String.prototype.trim()
Trim(s) == TrimEnd(TrimStart(s))

\* A node of the PostCSS tree: an @expand at-rule of the root (text: its
\* params), and below it an @apply at-rule (text: its params) or a rule
\* (text: its selector); nodes: the children.
ExpandNode(params) == [type |-> "expand", text |-> params, nodes |-> <<>>]

ApplyNode(params) == [type |-> "apply", text |-> params, nodes |-> <<>>]

RuleNode(selector) == [type |-> "rule", text |-> selector, nodes |-> <<>>]

\* The params of the top-level @expand at-rules of the model.
ExpandParams == {"Button", "ButtonMd", "btn"}

\* The params of the @apply statements of the model; "" is `@apply;`.
ApplyParams == {"a", "b c", ""}

\* The selectors of the rules of the model: a CamelCase suffix, the bare
\* continuation marker, a suffix that makes the name invalid, and a rule
\* that is no sub-block.
Selectors == {"&Md", "&", "&-md", ".x"}

RECURSIVE TreeSize(_)
\* The number of nodes of a node sequence, descendants included.
TreeSize(nodes) ==
    IF Len(nodes) = 0 THEN 0
    ELSE 1 + TreeSize(Head(nodes).nodes) + TreeSize(Tail(nodes))

RECURSIVE IsOpen(_, _)
\* Whether the text written so far ends inside d nested blocks: the last
\* node, its last child, ... down to level d are at-rules or rules with a
\* body, so that what is written next becomes a child at level d.
IsOpen(nodes, d) ==
    \/ d = 0
    \/ /\ Len(nodes) > 0
       /\ nodes[Len(nodes)].type # "apply"
       /\ IsOpen(nodes[Len(nodes)].nodes, d - 1)

RECURSIVE AppendAt(_, _, _)
\* The tree with node x written as the last child at level d.
AppendAt(nodes, d, x) ==
    IF d = 0 THEN Append(nodes, x)
    ELSE [nodes EXCEPT ![Len(nodes)] =
            [@ EXCEPT !.nodes = AppendAt(@, d - 1, x)]]

\* mergeAlias(aliases, name, utilities)
MergeAlias(map, name, utilities) ==
    IF Truthy(map, name)
    THEN [map EXCEPT ![name] = @ \o " " \o utilities]
    ELSE (name :> utilities) @@ map

\* Mutant: only the first character of the name is tested.
ValidateCamelCaseFirstOnly(name) == Len(name) >= 1 /\ CharAt(name, 1) \in Upper

\* validateCamelCase(name, file, node) returns (does not throw).
ValidateCamelCase(name) == IsCamelCase(name)

\* The state of a run of the parser: the aliases object, and whether the
\* naming error was thrown and for which name.
Parsing(map) == [aliases |-> map, threw |-> FALSE, name |-> ""]

Throw(st, name) == [st EXCEPT !.threw = TRUE, !.name = name]

RECURSIVE MergeApplies(_, _, _)
\* nodes.forEach: mergeAlias for every child that is an @apply.
MergeApplies(nodes, aliasName, map) ==
    IF Len(nodes) = 0 THEN map
    ELSE MergeApplies(Tail(nodes), aliasName,
            IF Head(nodes).type = "apply"
            THEN MergeAlias(map, aliasName, Trim(Head(nodes).text))
            ELSE map)

RECURSIVE ParseNestedRule(_, _, _)
RECURSIVE ParseNestedRules(_, _, _)
\* parseNestedRule(rule, parentName, aliases, cssPath)
ParseNestedRule(rule, parentName, st) ==
    LET modifier  == SliceFrom(Trim(rule.text), 1)
        aliasName == parentName \o modifier
    IN IF ~ValidateCamelCase(aliasName) THEN Throw(st, aliasName)
       ELSE ParseNestedRules(rule.nodes, aliasName,
               [st EXCEPT !.aliases = MergeApplies(rule.nodes, aliasName, @)])

\* nodes.forEach: parseNestedRule for every child that is a rule whose
\* selector starts with "&"; an error thrown ends the loop.
ParseNestedRules(nodes, aliasName, st) ==
    IF Len(nodes) = 0 \/ st.threw THEN st
    ELSE ParseNestedRules(Tail(nodes), aliasName,
            IF Head(nodes).type = "rule" /\ StartsWith(Head(nodes).text, "&")
            THEN ParseNestedRule(Head(nodes), aliasName, st)
            ELSE st)

RECURSIVE ParseExpandBlock(_, _, _)
\* parseExpandBlock(atRule, prefix, aliases, cssPath), nodes being what is
\* left of atRule.nodes.
ParseExpandBlock(nodes, prefix, st) ==
    IF Len(nodes) = 0 \/ st.threw THEN st
    ELSE LET node      == Head(nodes)
             selector  == Trim(node.text)
             aliasName == prefix \o SliceFrom(selector, 1)
         IN ParseExpandBlock(Tail(nodes), prefix,
               IF node.type = "apply"
               THEN [st EXCEPT !.aliases = MergeAlias(@, prefix,
                                                      Trim(node.text))]
               ELSE IF node.type = "rule" /\ StartsWith(selector, "&")
               THEN IF ~ValidateCamelCase(aliasName)
                    THEN Throw(st, aliasName)
                    ELSE ParseNestedRules(node.nodes, aliasName,
                            [st EXCEPT !.aliases =
                                MergeApplies(node.nodes, aliasName, @)])
               ELSE st)

RECURSIVE WalkAtRules(_, _)
\* root.walkAtRules('expand', ...), blocks being the @expand at-rules not
\* yet visited.
WalkAtRules(blocks, st) ==
    IF Len(blocks) = 0 \/ st.threw THEN st
    ELSE LET componentName == Trim(Head(blocks).text)
         IN WalkAtRules(Tail(blocks),
               IF ~ValidateCamelCase(componentName)
               THEN Throw(st, componentName)
               ELSE ParseExpandBlock(Head(blocks).nodes, componentName, st))

\* extractFromRoot(root, filename): the map it returns, or the name the
\* error it throws carries.
ExtractFromRoot(blocks) ==
    LET st == WalkAtRules(blocks, Parsing(<<>>))
    IN IF st.threw THEN [kind |-> "threw", name |-> st.name]
       ELSE [kind |-> "returned", aliases |-> st.aliases]

\* An empty stylesheet.
InitParse ==
    /\ root = <<>>
    /\ extracted = Undefined
    /\ pcParse = "input"

\* The author writes `@expand <params> {` after what the stylesheet
\* holds, closing the blocks that are open.
WriteExpand ==
    /\ pcParse = "input"
    /\ TreeSize(root) < MaxNodes
    /\ \E params \in ExpandParams : root' = Append(root, ExpandNode(params))
    /\ UNCHANGED <<extracted, pcParse>>
    /\ UNCHANGED besidesParse

\* The author writes `@apply <params>;` inside the block open at level d.
WriteApply ==
    /\ pcParse = "input"
    /\ TreeSize(root) < MaxNodes
    /\ \E d \in 1..MaxNodes, params \in ApplyParams :
          /\ IsOpen(root, d)
          /\ root' = AppendAt(root, d, ApplyNode(params))
    /\ UNCHANGED <<extracted, pcParse>>
    /\ UNCHANGED besidesParse

\* The author writes `<selector> {` inside the block open at level d.
WriteRule ==
    /\ pcParse = "input"
    /\ TreeSize(root) < MaxNodes
    /\ \E d \in 1..MaxNodes, selector \in Selectors :
          /\ IsOpen(root, d)
          /\ root' = AppendAt(root, d, RuleNode(selector))
    /\ UNCHANGED <<extracted, pcParse>>
    /\ UNCHANGED besidesParse

\* extractFromRoot(root, filename) is called.
CallExtractFromRoot ==
    /\ pcParse = "input"
    /\ extracted' = ExtractFromRoot(root)
    /\ pcParse' = "parsed"
    /\ UNCHANGED root
    /\ UNCHANGED besidesParse

(* ------------------------------------------------------------------ *)
(* babelPlugin and its cache                                            *)
(* ------------------------------------------------------------------ *)

RECURSIVE Resolve(_, _, _, _)
\* resolve(aliasName) as a function of the run's inputs: the value it
\* returns, or ok = FALSE when it throws the circular-dependency error.
\* inProgress is the resolving set. A memoized value is the value computed
\* here, the mergerFn being a pure function.
Resolve(raw, fn, aliasName, inProgress) ==
    IF aliasName \notin DOMAIN raw THEN [ok |-> TRUE, value |-> aliasName]
    ELSE IF aliasName \in inProgress THEN [ok |-> FALSE, value |-> ""]
    ELSE LET tokens == SplitWs(raw[aliasName])
             parts  == [i \in 1..Len(tokens) |->
                          IF IsAliasToken(tokens[i])
                          THEN Resolve(raw, fn, tokens[i],
                                       inProgress \cup {aliasName})
                          ELSE [ok |-> TRUE, value |-> tokens[i]]]
         IN IF \E i \in 1..Len(tokens) : ~parts[i].ok
            THEN [ok |-> FALSE, value |-> ""]
            ELSE [ok |-> TRUE,
                  value |-> ApplyMerger(fn,
                               Join([i \in 1..Len(tokens) |-> parts[i].value],
                                    " "))]

\* expand(rawAliases, { mergerFn }): the map it returns, or that it threw.
Expand(raw, fn) ==
    IF \E k \in DOMAIN raw : ~Resolve(raw, fn, k, {}).ok
    THEN [kind |-> "threw", name |-> "Circular dependency"]
    ELSE [kind |-> "returned",
          aliases |-> [k \in DOMAIN raw |-> Resolve(raw, fn, k, {}).value]]

\* The contents the file at options.cssPath has in the model, each as
\* postcss.parse reads it: an alias that repeats a utility, an alias that
\* names another one, a name that is not CamelCase, and a cycle.
Stylesheets ==
    << <<[ExpandNode("Button") EXCEPT !.nodes = <<ApplyNode("a b a")>>]>>,
       <<[ExpandNode("Button") EXCEPT !.nodes = <<ApplyNode("b a")>>],
         [ExpandNode("ButtonMd") EXCEPT !.nodes = <<ApplyNode("a Button")>>]>>,
       <<[ExpandNode("btn") EXCEPT !.nodes = <<ApplyNode("a")>>]>>,
       <<[ExpandNode("Button") EXCEPT !.nodes = <<ApplyNode("a Button")>>]>> >>

\* The contents as a set.
Contents == {Stylesheets[i] : i \in 1..Len(Stylesheets)}

\* crypto.createHash('md5').update(css).digest('hex'): the digest of a
\* content, here its number among the contents of the model (two contents
\* of the model never have the same digest).
Hash(content) ==
    CHOOSE h \in 1..Len(Stylesheets) : Stylesheets[h] = content

\* The mergerFn options of the model: none, and two different callbacks.
BabelMergerFns == {"none", "uniq", "last"}

\* cacheKey = `${hash}:${options.mergerFn ? 'merged' : 'raw'}`
CacheKey(hash, fn) == <<hash, IF fn # "none" THEN "merged" ELSE "raw">>

\* The module is loaded: the cache is empty, the file has some content.
InitBabel ==
    /\ css \in Contents
    /\ cache = <<>>
    /\ optionsMergerFn = "none"
    /\ visitorAliases = Undefined
    /\ pcBabel = "loaded"

\* The file at options.cssPath is saved with another content.
EditCss ==
    /\ pcBabel \in {"loaded", "initialised", "edited"}
    /\ css' \in Contents \ {css}
    /\ pcBabel' = "edited"
    /\ UNCHANGED <<cache, optionsMergerFn, visitorAliases>>
    /\ UNCHANGED besidesBabel

\* babelPlugin(_, options) is called: extract, the look-up in the cache,
\* expand and cache.set when the key is new, createBabelVisitor.
BabelPlugin ==
    /\ pcBabel \in {"loaded", "initialised", "edited"}
    /\ \E fn \in BabelMergerFns :
          LET extraction == ExtractFromRoot(css)
              cacheKey   == CacheKey(Hash(css), fn)
          IN /\ optionsMergerFn' = fn
             /\ IF extraction.kind = "threw"
                THEN /\ visitorAliases' = extraction
                     /\ cache' = cache
                ELSE IF cacheKey \in DOMAIN cache
                THEN /\ visitorAliases' =
                          [kind |-> "returned", aliases |-> cache[cacheKey]]
                     /\ cache' = cache
                ELSE LET expansion == Expand(extraction.aliases, fn)
                     IN /\ visitorAliases' = expansion
                        /\ cache' = IF expansion.kind = "threw"
                                    THEN cache
                                    ELSE (cacheKey :> expansion.aliases)
                                            @@ cache
    /\ pcBabel' = "initialised"
    /\ UNCHANGED css
    /\ UNCHANGED besidesBabel

(* ------------------------------------------------------------------ *)
(* A class token in a source file: expandToken and the scanner          *)
(* ------------------------------------------------------------------ *)

\* The variants a class token of a source file may carry: two that start
\* with a letter and Tailwind's 2xl breakpoint.
UsageSegs == {"lg", "hover", "2xl"}

\* What surrounds the token in the source text.
UsageTexts(tok) == {"class='" \o tok \o "'", "cn(\"flex " \o tok \o "\")"}

\* A class token, an alias map, and a source text that contains the token.
InitUsage ==
    /\ tokenParts \in [important : {"", "!"},
                       prefix : Chains(UsageSegs, MaxPrefixSegs),
                       name : TokenNames]
    /\ token = tokenParts.important \o tokenParts.prefix \o tokenParts.name
    /\ aliases \in AliasMaps
    /\ expandedAliases = {}
    /\ tokenResult = Undefined
    /\ pcToken = "input"
    /\ code \in UsageTexts(token)
    /\ variantUtilities \in ScanPriorSets
    /\ found = <<>>
    /\ pcScan = "input"

(* ------------------------------------------------------------------ *)
(* From the stylesheet to the class string: extract, expand and         *)
(* expandClassString in a row                                           *)
(* ------------------------------------------------------------------ *)

\* What the two @apply statements of a stylesheet of the model hold: the
\* first one utilities, the second one a reference to the first alias
\* (bare, with a variant, with the important marker), a reference to
\* itself, or a CamelCase utility.
ButtonApplies == {"text-sm", "text-sm inline-flex"}

CardApplies == {"Button p-2", "lg:Button p-2", "!Button p-2", "p-2 Card",
                "Tag p-2"}

\* The stylesheets of the model, as postcss.parse reads them:
\* @expand Button { @apply ...; } @expand Card { @apply ...; }
BuildStylesheets ==
    { <<[ExpandNode("Button") EXCEPT !.nodes = <<ApplyNode(b)>>],
        [ExpandNode("Card") EXCEPT !.nodes = <<ApplyNode(c)>>]>> :
        b \in ButtonApplies, c \in CardApplies }

\* The tokens of the className attributes of the model.
BuildTokenPool == {"Card", "lg:Card", "!Card", "Button", "hover:Button",
                   "flex"}

\* The className attributes of the model.
BuildClassStrings ==
    UNION { { Join(ts, " ") : ts \in [1..n -> BuildTokenPool] }
            : n \in 0..MaxClassTokens }

\* A stylesheet is given; nothing has run yet.
InitBuild ==
    /\ root \in BuildStylesheets
    /\ extracted = Undefined
    /\ pcParse = "input"

\* expand(rawAliases, { mergerFn }) is called on the map the parser
\* returned.
CallExpand ==
    /\ pcParse = "parsed" /\ extracted.kind = "returned"
    /\ pc = "idle"
    /\ \E fn \in MergerFns :
          LET outcome == Expand(extracted.aliases, fn)
          IN /\ mergerFn' = fn
             /\ rawAliases' = extracted.aliases
             /\ IF outcome.kind = "returned"
                THEN expanded' = outcome.aliases /\ pc' = "done"
                ELSE expanded' = expanded /\ pc' = "threw"
    /\ UNCHANGED <<resolving, frames, iterated, thrown, mergerCalls,
                   prevResult, steps>>
    /\ UNCHANGED besidesExpand

\* The visitor, created with the map expand returned, comes to a
\* className attribute.
VisitClassName ==
    /\ pc = "done"
    /\ pcClass = "idle"
    /\ classString' \in BuildClassStrings
    /\ aliases' = expanded
    /\ pcClass' = "input"
    /\ UNCHANGED <<classResult, classResultOther, expandedBefore,
                   expandedAliases>>
    /\ UNCHANGED besidesClass

\* expandClassString is called on the string it returned.
CallOnOwnResult ==
    /\ pcClass = "expanded"
    /\ classResultOther' = ExpandClassString(classResult, aliases, {}).value
    /\ pcClass' = "again"
    /\ UNCHANGED <<classString, aliases, expandedAliases, classResult,
                   expandedBefore>>
    /\ UNCHANGED besidesClass


(* ------------------------------------------------------------------ *)
(* expandAliases: the resolver of the first Vite plugin                 *)
(* ------------------------------------------------------------------ *)

\* /^[A-Z]/.test(token)
StartsUpper(tok) == Len(tok) >= 1 /\ CharAt(tok, 1) \in Upper

\* resolving.has(name)
LegacyIsCircular(name, inProgress) == name \in inProgress

RECURSIVE LegacyResolve(_, _, _, _)
RECURSIVE LegacyMapTokens(_, _, _, _)
\* resolve(name) called with `memo` in expanded and `inProgress` in
\* resolving: the string it returns and expanded after the call.
LegacyResolve(al, name, memo, inProgress) ==
    IF Truthy(memo, name) THEN [value |-> memo[name], expanded |-> memo]
    ELSE IF ~Truthy(al, name) THEN [value |-> name, expanded |-> memo]
    ELSE IF LegacyIsCircular(name, inProgress)
         THEN [value |-> "", expanded |-> memo]
    ELSE LET r == LegacyMapTokens(al, SplitWs(al[name]), memo,
                                  inProgress \cup {name})
             resolved == SelectSeq(r.out, LAMBDA t : t # "")
         IN [value    |-> Join(resolved, " "),
             expanded |-> (name :> Join(resolved, " ")) @@ r.expanded]

\* tokens.map(token => /^[A-Z]/.test(token) ? resolve(token) : token):
\* the array, and expanded after the last call.
LegacyMapTokens(al, tokens, memo, inProgress) ==
    IF Len(tokens) = 0 THEN [out |-> <<>>, expanded |-> memo]
    ELSE LET first == IF StartsUpper(Head(tokens))
                      THEN LegacyResolve(al, Head(tokens), memo, inProgress)
                      ELSE [value |-> Head(tokens), expanded |-> memo]
             rest  == LegacyMapTokens(al, Tail(tokens), first.expanded,
                                      inProgress)
         IN [out |-> <<first.value>> \o rest.out, expanded |-> rest.expanded]

RECURSIVE LegacyLoop(_, _, _)
\* for (const name of Object.keys(aliases)) resolve(name)
LegacyLoop(al, keys, memo) ==
    IF Len(keys) = 0 THEN memo
    ELSE LegacyLoop(al, Tail(keys),
                    LegacyResolve(al, Head(keys), memo, {}).expanded)

\* expandAliases(aliases), the keys of aliases being `keys` in order.
ExpandAliases(al, keys) == LegacyLoop(al, keys, <<>>)

\* The orders in which a map of the model may hold its keys.
KeyOrders ==
    KeyLists \cup {<<"B", "A">>, <<"Cc", "A">>, <<"Cc", "B">>,
                   <<"A", "Cc", "B">>, <<"B", "A", "Cc">>,
                   <<"B", "Cc", "A">>, <<"Cc", "A", "B">>,
                   <<"Cc", "B", "A">>}

InitLegacy ==
    /\ legacyKeys \in KeyOrders
    /\ legacyAliases \in RawMaps(legacyKeys, MaxTotal)
    /\ legacyExpanded = Undefined
    /\ pcLegacy = "input"

\* expandAliases(aliases) is called.
CallExpandAliases ==
    /\ pcLegacy = "input"
    /\ legacyExpanded' = ExpandAliases(legacyAliases, legacyKeys)
    /\ pcLegacy' = "returned"
    /\ UNCHANGED <<legacyAliases, legacyKeys>>
    /\ UNCHANGED besidesLegacy


(* ------------------------------------------------------------------ *)
(* stripExpandBlocks of the Vite plugin                                 *)
(* ------------------------------------------------------------------ *)

\* Number of pieces of a CSS text of the model.
MaxPieces == 5

RECURSIVE IndexOfStrFrom(_, _, _)
\* String.prototype.indexOf(sub, from) for a string sub: 0-based, -1 if
\* sub does not occur at or after from.
IndexOfStrFrom(s, sub, from) ==
    IF from + Len(sub) > Len(s) THEN -1
    ELSE IF SubSeq(s, from + 1, from + Len(sub)) = sub THEN from
    ELSE IndexOfStrFrom(s, sub, from + 1)

\* String.prototype.includes(sub)
Includes(s, sub) == IndexOfStrFrom(s, sub, 0) # -1

RECURSIVE BraceEnd(_, _, _)
\* while (j < css.length && depth > 0) { ...; j++ }: the value of j after
\* the loop.
BraceEnd(text, j, depth) ==
    IF j < Len(text) /\ depth > 0
    THEN BraceEnd(text, j + 1,
                  IF CharAt(text, j + 1) = "{" THEN depth + 1
                  ELSE IF CharAt(text, j + 1) = "}" THEN depth - 1
                  ELSE depth)
    ELSE j

RECURSIVE StripLoop(_, _, _)
\* while (i < css.length) { ... } entered with i and result.
StripLoop(text, i, result) ==
    IF i >= Len(text) THEN result
    ELSE LET expandIndex == IndexOfStrFrom(text, "@expand", i)
         IN IF expandIndex = -1 THEN result \o SliceFrom(text, i)
            ELSE LET kept == result \o Slice(text, i, expandIndex)
                     braceStart == IndexFrom(text, "{", expandIndex + 1)
                 IN IF braceStart = -1
                    THEN StripLoop(text, expandIndex + 7, kept)
                    ELSE StripLoop(text, BraceEnd(text, braceStart + 1, 1),
                                   kept)

\* stripExpandBlocks(css)
StripExpandBlocks(text) == StripLoop(text, 0, "")

\* The pieces the CSS texts of the model are written in: the head of an
\* @expand at-rule, the braces, the end of a statement, the head of
\* another rule, a declaration and a statement of a block.
CssPieces == {"@expand A ", "{", "}", ";", " .b ", " color: red; ",
              " @apply a; "}

\* The text written so far.
Concat(pieces) == Join(pieces, "")

\* The author starts an empty file.
InitStrip ==
    /\ stripPieces = <<>>
    /\ stripCss = ""
    /\ stripResult = Undefined
    /\ pcStrip = "input"

\* The author writes one more piece.
WritePiece ==
    /\ pcStrip = "input"
    /\ Len(stripPieces) < MaxPieces
    /\ \E piece \in CssPieces :
          /\ stripPieces' = Append(stripPieces, piece)
          /\ stripCss' = Concat(Append(stripPieces, piece))
    /\ UNCHANGED <<stripResult, pcStrip>>
    /\ UNCHANGED besidesStrip

\* stripExpandBlocks(css) is called.
CallStripExpandBlocks ==
    /\ pcStrip = "input"
    /\ stripResult' = StripExpandBlocks(stripCss)
    /\ pcStrip' = "stripped"
    /\ UNCHANGED <<stripPieces, stripCss>>
    /\ UNCHANGED besidesStrip


(* ------------------------------------------------------------------ *)
(* tailwindExpandVite: one instance of the Vite plugin                  *)
(* ------------------------------------------------------------------ *)

\* Number of calls made to one plugin instance.
MaxCalls == 4

\* String.prototype.endsWith(suffix)
EndsWith(s, suffix) ==
    Len(s) >= Len(suffix)
      /\ SubSeq(s, Len(s) - Len(suffix) + 1, Len(s)) = suffix

\* The code units of the characters of the utilities, in ascending order.
CodeUnits == "!-/0123456789:ABCDEFGHIJKLMNOPQRSTUVWXYZ_abcdefghijklmnopqrstuvwxyz"

\* The place of a character in that order.
CodeUnit(c) == IndexFrom(CodeUnits, c, 1)

RECURSIVE LessFrom(_, _, _)
\* Whether a sorts before b, the two being equal before position i: the
\* comparison of Array.prototype.sort() without a compare function.
LessFrom(a, b, i) ==
    IF i > Len(b) THEN FALSE
    ELSE IF i > Len(a) THEN TRUE
    ELSE IF CharAt(a, i) = CharAt(b, i) THEN LessFrom(a, b, i + 1)
    ELSE CodeUnit(CharAt(a, i)) < CodeUnit(CharAt(b, i))

RECURSIVE Sorted(_)
\* [...set].sort()
Sorted(set) ==
    IF set = {} THEN <<>>
    ELSE LET least == CHOOSE x \in set :
                         \A y \in set \ {x} : LessFrom(x, y, 1)
         IN <<least>> \o Sorted(set \ {least})

\* The utilities of the values of a resolved map: utils.split(/\s+/), the
\* empty pieces left out.
BaseUtilities(map) ==
    UNION { {SplitWs(map[k])[i] : i \in 1..Len(SplitWs(map[k]))} \ {""} :
            k \in DOMAIN map }

\* transformExpandBlocks(css, expanded, variantUtilities): the string it
\* returns and, apart, the list it wrote into the directive.
TransformExpandBlocks(text, map, set) ==
    LET utilities == BaseUtilities(map) \cup set
    IN [code   |-> IF utilities = {} THEN StripExpandBlocks(text)
                   ELSE StripExpandBlocks(text)
                          \o "\n/* tailwind-expand */\n@source inline(\""
                          \o Join(Sorted(utilities), " ") \o "\");\n",
        inline |-> Sorted(utilities)]

RECURSIVE Render(_)
\* The text of a document of the model, what postcss.parse reads the
\* document from.
Render(nodes) ==
    IF Len(nodes) = 0 THEN ""
    ELSE LET node == Head(nodes)
         IN (IF node.type = "expand"
             THEN "@expand " \o node.text \o " {" \o Render(node.nodes) \o " } "
             ELSE IF node.type = "apply"
             THEN " @apply " \o node.text \o ";"
             ELSE node.text \o " {" \o Render(node.nodes) \o " } ")
            \o Render(Tail(nodes))

\* The @expand at-rules root.walkAtRules('expand', ...) visits.
ExpandAtRules(nodes) == SelectSeq(nodes, LAMBDA n : n.type = "expand")

\* extractFromCSS(css) for the text of a document of the model.
ExtractFromCSS(nodes) == ExtractFromRoot(ExpandAtRules(nodes))

\* The documents given to the plugins: two versions of a stylesheet with
\* one alias, a stylesheet without @expand, and one with an invalid name.
PluginDocuments ==
    { <<RuleNode(".x"),
        [ExpandNode("Button") EXCEPT !.nodes = <<ApplyNode("a")>>]>>,
      <<RuleNode(".x"),
        [ExpandNode("Button") EXCEPT !.nodes = <<ApplyNode("b")>>]>>,
      <<RuleNode(".x")>>,
      <<[ExpandNode("btn") EXCEPT !.nodes = <<ApplyNode("a")>>]>> }

\* The ids of the modules Vite hands to transform, and the files it
\* reports as changed.
ModuleIds == {"g.css", "h.css", "m.tsx"}

\* The file the author may delete.
Stylesheet == {"g.css"}

\* The text of the one source file under the root directory.
SourceText == "<p class='lg:Button flex'/>"

\* scanSourceFiles(rootDir, aliases, variantUtilities) for that directory:
\* the set after the call.
ScanSourceFiles(map, set) == CollectVariantAliases(SourceText, map, set).set

\* options.mergerFn of the instance.
PluginMergerFn == "none"

\* tailwindExpandVite() has returned the plugin; the files are on disk.
InitVite ==
    /\ pluginVariantUtilities = {}
    /\ pluginExpandedAliases = <<>>
    /\ rootDir = ""
    /\ expandCssFiles = {}
    /\ server = "null"
    /\ onDisk = ModuleIds
    /\ calls = <<>>
    /\ transformed = Undefined
    /\ restartCalls = 0
    /\ hotReturn = Undefined

\* A call is noted with what the plugin was given.
Noted(call) == calls' = Append(calls, call)

\* configResolved(config)
ConfigResolved ==
    /\ Len(calls) < MaxCalls
    /\ rootDir' = "/app"
    /\ Noted([op |-> "configResolved", id |-> "", expand |-> FALSE,
              gone |-> FALSE, served |-> server # "null"])
    /\ UNCHANGED <<pluginVariantUtilities, pluginExpandedAliases,
                   expandCssFiles, server, onDisk, transformed,
                   restartCalls, hotReturn>>
    /\ UNCHANGED besidesVite

\* Mutant: the tracked files are kept over a restart.
ClearedKept(files) == files

\* expandCssFiles.clear()
Cleared(files) == {}

\* configureServer(devServer)
ConfigureServer ==
    /\ Len(calls) < MaxCalls
    /\ server' = "dev"
    /\ expandCssFiles' = Cleared(expandCssFiles)
    /\ Noted([op |-> "configureServer", id |-> "", expand |-> FALSE,
              gone |-> FALSE, served |-> TRUE])
    /\ UNCHANGED <<pluginVariantUtilities, pluginExpandedAliases, rootDir,
                   onDisk, transformed, restartCalls, hotReturn>>
    /\ UNCHANGED besidesVite

\* transform(code, id), code being the text of the document doc.
Transform ==
    /\ Len(calls) < MaxCalls
    /\ \E id \in ModuleIds, doc \in PluginDocuments :
          LET text == Render(doc)
          IN /\ Noted([op |-> "transform", id |-> id,
                       expand |-> Includes(text, "@expand"),
                       gone |-> id \notin onDisk, served |-> server # "null"])
             /\ IF ~EndsWith(id, ".css")
                THEN /\ transformed' = [kind |-> "null"]
                     /\ UNCHANGED <<expandCssFiles, pluginExpandedAliases,
                                    pluginVariantUtilities>>
                ELSE IF ~Includes(text, "@expand")
                THEN /\ expandCssFiles' = expandCssFiles \ {id}
                     /\ transformed' = [kind |-> "null"]
                     /\ UNCHANGED <<pluginExpandedAliases,
                                    pluginVariantUtilities>>
                ELSE LET extraction == ExtractFromCSS(doc)
                         expansion  == Expand(extraction.aliases,
                                              PluginMergerFn)
                     IN /\ expandCssFiles' = expandCssFiles \cup {id}
                        /\ IF extraction.kind = "threw"
                           THEN /\ transformed' = [kind |-> "threw"]
                                /\ UNCHANGED <<pluginExpandedAliases,
                                               pluginVariantUtilities>>
                           ELSE IF expansion.kind = "threw"
                           THEN /\ transformed' = [kind |-> "threw"]
                                /\ UNCHANGED <<pluginExpandedAliases,
                                               pluginVariantUtilities>>
                           ELSE LET scanned ==
                                      IF rootDir # ""
                                      THEN ScanSourceFiles(expansion.aliases,
                                               pluginVariantUtilities)
                                      ELSE pluginVariantUtilities
                                    result ==
                                      TransformExpandBlocks(text,
                                          expansion.aliases, scanned)
                                IN /\ pluginExpandedAliases' =
                                          expansion.aliases
                                   /\ pluginVariantUtilities' = scanned
                                   /\ transformed' =
                                        [kind    |-> "code",
                                         code    |-> result.code,
                                         inline  |-> result.inline,
                                         aliases |-> expansion.aliases]
    /\ UNCHANGED <<rootDir, server, onDisk, restartCalls, hotReturn>>
    /\ UNCHANGED besidesVite

\* Mutant: the hot update does not ask whether a server was configured.
HotUpdateUnserved(srv, files, file, exists) ==
    IF file \in files /\ ~exists
    THEN [files |-> files \ {file}, restarts |-> 1, modules |-> "none"]
    ELSE IF file \in files
    THEN [files |-> files, restarts |-> 1, modules |-> "none"]
    ELSE [files |-> files, restarts |-> 0, modules |-> "ctx.modules"]

\* The body of handleHotUpdate(ctx) for ctx.file = file: expandCssFiles
\* after it, the calls of server.restart it makes, and what it returns
\* ("none" for the empty list).
HotUpdate(srv, files, file, exists) ==
    IF srv = "null"
    THEN [files |-> files, restarts |-> 0, modules |-> "ctx.modules"]
    ELSE IF file \in files /\ ~exists
    THEN [files |-> files \ {file}, restarts |-> 1, modules |-> "none"]
    ELSE IF file \in files
    THEN [files |-> files, restarts |-> 1, modules |-> "none"]
    ELSE [files |-> files, restarts |-> 0, modules |-> "ctx.modules"]

\* handleHotUpdate(ctx)
HandleHotUpdate ==
    /\ Len(calls) < MaxCalls
    /\ \E file \in ModuleIds :
          LET r == HotUpdate(server, expandCssFiles, file, file \in onDisk)
          IN /\ Noted([op |-> "handleHotUpdate", id |-> file,
                       expand |-> FALSE, gone |-> file \notin onDisk,
                       served |-> server # "null"])
             /\ expandCssFiles' = r.files
             /\ restartCalls' = r.restarts
             /\ hotReturn' = r.modules
    /\ UNCHANGED <<pluginVariantUtilities, pluginExpandedAliases, rootDir,
                   server, onDisk, transformed>>
    /\ UNCHANGED besidesVite

\* The author deletes the stylesheet.
Unlink ==
    /\ Len(calls) < MaxCalls
    /\ \E file \in onDisk \cap Stylesheet : onDisk' = onDisk \ {file}
    /\ UNCHANGED <<pluginVariantUtilities, pluginExpandedAliases, rootDir,
                   expandCssFiles, server, calls, transformed,
                   restartCalls, hotReturn>>
    /\ UNCHANGED besidesVite


(* ------------------------------------------------------------------ *)
(* postcssPlugin: the Once handler                                      *)
(* ------------------------------------------------------------------ *)

\* Number of documents one plugin processes.
MaxRuns == 3

\* The documents given to the PostCSS plugin: those of the Vite plugin, a
\* stylesheet that holds nothing but an @expand block, and one with a
\* sub-block and an alias that names another.
PostcssDocuments ==
    PluginDocuments \cup
    { <<[ExpandNode("Button") EXCEPT !.nodes = <<ApplyNode("a")>>]>>,
      <<[ExpandNode("Button") EXCEPT !.nodes =
            <<ApplyNode("a"),
              [RuleNode("&Md") EXCEPT !.nodes = <<ApplyNode("c")>>]>>],
        RuleNode(".x"),
        [ExpandNode("Card") EXCEPT !.nodes = <<ApplyNode("ButtonMd d")>>]>> }

\* What the source file under rootDir may hold.
SourceTexts == {SourceText, "<p class='hover:ButtonMd'/>"}

\* Mutant: the set of the last run is kept.
NewSetKept(previous) == previous

\* const allUtilities = new Set<string>()
NewSet(previous) == {}

\* utils.split(/\s+/).forEach((u) => allUtilities.add(u)) for every value
\* of the map: the pieces of the values, empty ones included.
ValuePieces(map) ==
    UNION { {SplitWs(map[k])[i] : i \in 1..Len(SplitWs(map[k]))} :
            k \in DOMAIN map }

\* root.walkAtRules('expand', (atRule) => atRule.remove())
RemoveExpand(nodes) == SelectSeq(nodes, LAMBDA n : n.type # "expand")

\* The plugin is created; nothing has been processed.
InitPostcss ==
    /\ sourceText \in SourceTexts
    /\ runs = <<>>
    /\ allUtilities = {}
    /\ processed = Undefined

\* Once(root), root being the document doc. The outcome holds the nodes
\* the root is left with and, when the directive is inserted, the
\* utilities it lists.
Once ==
    /\ Len(runs) < MaxRuns
    /\ \E doc \in PostcssDocuments :
          /\ runs' = Append(runs, doc)
          /\ IF ~Includes(Render(doc), "@expand")
             THEN /\ processed' = [kind |-> "returned", nodes |-> doc,
                                   directive |-> FALSE, inline |-> {}]
                  /\ UNCHANGED allUtilities
             ELSE LET extraction == ExtractFromCSS(doc)
                      expansion  == Expand(extraction.aliases, PluginMergerFn)
                  IN IF extraction.kind = "threw"
                     THEN /\ processed' = [kind |-> "threw"]
                          /\ UNCHANGED allUtilities
                     ELSE IF expansion.kind = "threw"
                     THEN /\ processed' = [kind |-> "threw"]
                          /\ UNCHANGED allUtilities
                     ELSE LET collected ==
                                CollectVariantAliases(sourceText,
                                    expansion.aliases,
                                    NewSet(allUtilities)
                                       \cup ValuePieces(expansion.aliases)).set
                              left == RemoveExpand(doc)
                              inserted == collected # {} /\ Len(left) > 0
                          IN /\ allUtilities' = collected
                             /\ processed' =
                                  [kind      |-> "returned",
                                   nodes     |-> left,
                                   directive |-> inserted,
                                   inline    |-> IF inserted THEN collected
                                                 ELSE {}]
    /\ UNCHANGED sourceText
    /\ UNCHANGED besidesPostcss


Init == InitExpand /\ IdlePrefix /\ IdleToken /\ IdleRest

Next ==
    \/ IterateCached
    \/ IterateResolve
    \/ TokenUtility
    \/ TokenCached
    \/ TokenNotAlias
    \/ TokenCircular
    \/ TokenRecurse
    \/ ResolveReturn
    \/ ReturnExpanded
    \/ CallAgain

\* The alias resolver: every RawAliasMap and merge callback of the model,
\* the keys taken in any order.
Spec == Init /\ [][Next]_vars

PrefixerInit == IdleExpand /\ InitPrefix /\ IdleToken /\ IdleRest

NextPrefix ==
    \/ ApplyPrefix
    \/ ReapplyPrefix

\* The variant prefixer on every prefix and utility of the model.
SpecPrefix == PrefixerInit /\ [][NextPrefix]_vars

ExpanderInit == IdleExpand /\ IdlePrefix /\ InitToken /\ IdleRest

NextToken ==
    \/ CallExpandToken

\* The token expander on every token and alias map of the model.
SpecToken == ExpanderInit /\ [][NextToken]_vars

ClassInit == IdleExpand /\ IdlePrefix /\ InitClass
                 /\ IdleScan /\ IdleParse /\ IdleBabel
                 /\ IdleLater

NextClass ==
    \/ CallExpandClassString
    \/ CallWithOtherSet

\* The class-string expander on every class string and alias map of the
\* model.
SpecClass == ClassInit /\ [][NextClass]_vars

ScannerInit == IdleExpand /\ IdlePrefix /\ IdleClass /\ InitScan
                   /\ IdleParse /\ IdleBabel
                 /\ IdleLater

NextScan ==
    \/ CallCollectVariantAliases

\* The source scanner on every source text and alias map of the model.
SpecScan == ScannerInit /\ [][NextScan]_vars

ParserInit == IdleExpand /\ IdlePrefix /\ IdleToken /\ IdleClass
                  /\ IdleScan /\ InitParse /\ IdleBabel
                 /\ IdleLater

NextParse ==
    \/ WriteExpand
    \/ WriteApply
    \/ WriteRule
    \/ CallExtractFromRoot

\* The parser on every document of the model: the stylesheet is written
\* node by node, and parsed at any point.
SpecParse == ParserInit /\ [][NextParse]_vars

BabelInit == IdleExpand /\ IdlePrefix /\ IdleToken /\ IdleClass
                 /\ IdleScan /\ IdleParse /\ InitBabel
                 /\ IdleLater

NextBabel ==
    \/ EditCss
    \/ BabelPlugin

\* The Babel plugin: any sequence of initialisations and of changes of
\* the stylesheet in one process.
SpecBabel == BabelInit /\ [][NextBabel]_vars

UsageInit == IdleExpand /\ IdlePrefix /\ IdleClass /\ InitUsage
                 /\ IdleParse /\ IdleBabel
                 /\ IdleLater

NextUsage ==
    \/ CallExpandToken
    \/ CallCollectVariantAliases

\* A class token of a source file, expanded by expandToken where it is
\* used and found by the scanner in the text of the file.
SpecUsage == UsageInit /\ [][NextUsage]_vars

BuildInit == IdleExpand /\ IdlePrefix /\ IdleToken /\ IdleClass
                 /\ IdleScan /\ InitBuild /\ IdleBabel
                 /\ IdleLater

NextBuild ==
    \/ CallExtractFromRoot
    \/ CallExpand
    \/ VisitClassName
    \/ CallExpandClassString
    \/ CallOnOwnResult

\* One build: the stylesheet is parsed, the map resolved, and a className
\* attribute expanded against it, twice.
SpecBuild == BuildInit /\ [][NextBuild]_vars

\* None of the components of the core is in use.
IdleCore == IdleExpand /\ IdlePrefix /\ IdleToken /\ IdleClass
                /\ IdleScan /\ IdleParse /\ IdleBabel

LegacyInit == IdleCore /\ InitLegacy /\ IdleStrip /\ IdleVite /\ IdlePostcss

NextLegacy ==
    \/ CallExpandAliases

\* The resolver of the first Vite plugin on every alias map of the model.
SpecLegacy == LegacyInit /\ [][NextLegacy]_vars

StripInit == IdleCore /\ IdleLegacy /\ InitStrip /\ IdleVite /\ IdlePostcss

NextStrip ==
    \/ WritePiece
    \/ CallStripExpandBlocks

\* stripExpandBlocks on every CSS text of the model: the text is written
\* piece by piece, and stripped at any point.
SpecStrip == StripInit /\ [][NextStrip]_vars

ViteInit == IdleCore /\ IdleLegacy /\ IdleStrip /\ InitVite /\ IdlePostcss

NextVite ==
    \/ ConfigResolved
    \/ ConfigureServer
    \/ Transform
    \/ HandleHotUpdate
    \/ Unlink

\* One instance of the Vite plugin under any sequence of calls of its
\* hooks, the author deleting files in between.
SpecVite == ViteInit /\ [][NextVite]_vars

PostcssInit == IdleCore /\ IdleLegacy /\ IdleStrip /\ IdleVite
                   /\ InitPostcss

NextPostcss ==
    \/ Once

\* One PostCSS plugin processing one document after another.
SpecPostcss == PostcssInit /\ [][NextPostcss]_vars

(* ------------------------------------------------------------------ *)
(* Properties of expand                                                 *)
(* ------------------------------------------------------------------ *)

Keys == DOMAIN rawAliases

Range(seq) == {seq[i] : i \in 1..Len(seq)}

\* The aliases the raw value of k names by a bare token.
Refs(k) == {t \in Range(SplitWs(rawAliases[k])) : t \in Keys}

RECURSIVE ReachWithin(_, _)
ReachWithin(S, n) ==
    IF n = 0 THEN S
    ELSE ReachWithin(S \cup UNION {Refs(k) : k \in S}, n - 1)

\* The aliases k reaches through one or more references.
Reach(k) == ReachWithin(Refs(k), Cardinality(Keys))

HasCycle == \E k \in Keys : k \in Reach(k)

\* The raw tokens of k with every token that is a key replaced by what
\* expanded holds for it, joined with single spaces.
Substituted(k) ==
    LET toks == SplitWs(rawAliases[k])
    IN Join([i \in 1..Len(toks) |->
               IF toks[i] \in Keys THEN expanded[toks[i]] ELSE toks[i]], " ")

\* Some alias of the map names another alias.
SomeRef == \E k \in Keys : Refs(k) # {}

\* C1: for a cycle-free RawAliasMap and no mergerFn, once expand has
\* returned, no whitespace-separated token of any resolved value is a key
\* of the RawAliasMap.
C1_NoKeyTokenInResolved ==
    (pc = "done" /\ mergerFn = "none" /\ ~HasCycle) =>
        \A k \in DOMAIN expanded :
            \A tok \in Range(SplitWs(expanded[k])) : tok \notin Keys

\* A run without mergerFn has returned a map in which an alias that names
\* another alias resolved to utilities.
C1_Witness ==
    /\ pc = "done" /\ mergerFn = "none" /\ ~HasCycle
    /\ \E k \in Keys : Refs(k) # {} /\ expanded[k] # ""

\* The guards of the steps of a run, action by action: CanStep holds in
\* exactly the states in which Next is enabled.
CanStep ==
    /\ pc = "loop"
    /\ \/ /\ Len(frames) = 0
          /\ \E k \in Keys \ iterated :
                ResolveOutcome(k) \in {"cached", "recurse"}
       \/ Len(frames) = 0 /\ iterated = Keys
       \/ /\ AtToken
          /\ \/ ~IsAliasToken(CurToken)
             \/ ResolveOutcome(CurToken)
                   \in {"cached", "utility", "circular", "recurse"}
       \/ Len(frames) > 0 /\ Top.idx > Len(Top.tokens)

\* C2: for a RawAliasMap in which some alias reaches itself through bare
\* alias-name tokens, expand never returns a map, whatever the order of
\* the keys: the run goes on until the circular-dependency error is
\* thrown.
C2_CyclicThrows ==
    HasCycle => /\ pc \in {"loop", "threw"}
                /\ pc = "loop" => CanStep
                /\ ~(Len(frames) = 0 /\ iterated = Keys)

\* The error was thrown for a mutual or longer cycle.
C2_Witness == pc = "threw" /\ HasCycle /\ Len(thrown) >= 3

\* No name is being resolved by two active calls of resolve.
NoRevisit ==
    \A i, j \in 1..Len(frames) : frames[i].name = frames[j].name => i = j

RECURSIVE TokenCount(_)
\* The number of tokens of the raw values of the aliases in S.
TokenCount(S) ==
    IF S = {} THEN 0
    ELSE LET k == CHOOSE x \in S : TRUE
         IN Len(SplitWs(rawAliases[k])) + TokenCount(S \ {k})

\* The steps a run on rawAliases can take at most: for each key the loop's
\* turn, the entry of resolve, its tokens and its return, and the final
\* return or throw.
StepBound == TokenCount(Keys) + 3 * Cardinality(Keys) + 1

\* C3: expand terminates, by returning a map or by throwing the
\* circular-dependency error: a run takes a bounded number of steps, a
\* run that has neither returned nor thrown can take a step, and the
\* recursion never revisits a name that is in progress.
C3_Terminates ==
    /\ pc \in {"loop", "done", "threw"}
    /\ steps <= StepBound
    /\ pc = "loop" => CanStep
    /\ NoRevisit
    /\ Range(resolving) = {frames[i].name : i \in 1..Len(frames)}

\* A run came to its end with a recursion three calls deep behind it.
C3_Witness == pc = "done" /\ \E k \in Keys : \E b \in Refs(k) : Refs(b) # {}

\* C4 as stated: the reported chain begins and ends with the revisited
\* name, and lists, in order, exactly the names of the cycle.
C4_ChainIsCycle ==
    pc = "threw" =>
        /\ thrown[1] = thrown[Len(thrown)]
        /\ \A i \in 1..(Len(thrown) - 1) : thrown[i + 1] \in Refs(thrown[i])
        /\ \A i, j \in 1..(Len(thrown) - 1) : thrown[i] = thrown[j] => i = j

\* C5: without a mergerFn the resolved value of every alias is its raw
\* token sequence with every token that is a key replaced in place by
\* that alias's resolved value, the rest unchanged, in the same order,
\* nothing deduplicated, joined with single spaces.
C5_ResolvedIsSubstitution ==
    (pc = "done" /\ mergerFn = "none") =>
        /\ DOMAIN expanded = Keys
        /\ \A k \in Keys : expanded[k] = Substituted(k)

\* A returned map holds an alias that names another one next to a utility
\* and whose resolved value repeats a utility.
C5_Witness ==
    /\ pc = "done" /\ mergerFn = "none"
    /\ \E k \in Keys :
          /\ Refs(k) # {}
          /\ LET r == SplitWs(expanded[k])
             IN \E i, j \in 1..Len(r) : i < j /\ r[i] = r[j] /\ r[i] # ""

\* C6: two runs of expand on the same RawAliasMap and mergerFn return
\* equal maps, whatever order each run takes the keys in.
C6_SameResultInAnyOrder ==
    (pc = "done" /\ prevResult.returned) => expanded = prevResult.map

\* A second run has returned for a map with two keys or more, a reference
\* and the merge callback.
C6_Witness ==
    /\ pc = "done" /\ prevResult.returned
    /\ Cardinality(Keys) >= 2 /\ SomeRef /\ mergerFn = "uniq"

\* The calls of mergerFn made for alias k.
CallsFor(k) == {i \in 1..Len(mergerCalls) : mergerCalls[i].alias = k}

\* C7: in a run with a mergerFn that returns, mergerFn is called exactly
\* once for each key, with the single-space join of that alias's tokens
\* in which each referenced alias is replaced by its own merged value.
C7_MergerOncePerKey ==
    (pc = "done" /\ mergerFn # "none") =>
        \A k \in Keys :
            /\ Cardinality(CallsFor(k)) = 1
            /\ \A i \in CallsFor(k) : mergerCalls[i].arg = Substituted(k)

\* A run with a mergerFn has returned for a map in which one alias is
\* named by two tokens.
C7_Witness ==
    /\ pc = "done" /\ mergerFn # "none"
    /\ \E k \in Keys : \E b \in Refs(k) :
          LET toks == SplitWs(rawAliases[k])
          IN \E i, j \in 1..Len(toks) : i < j /\ toks[i] = b /\ toks[j] = b

(* ------------------------------------------------------------------ *)
(* Properties of applyVariantPrefix                                     *)
(* ------------------------------------------------------------------ *)

\* The segments of a canonical prefix seg1:seg2:...: .
SegmentsOf(p) ==
    LET pieces == SplitOn(p, ":")
    IN {pieces[i] : i \in 1..(Len(pieces) - 1)}

\* The token t without its longest leading run of `segment:` pieces whose
\* segment is in S.
WithoutLeadingRun(t, S) ==
    LET pieces == SplitOn(t, ":")
        n      == Len(pieces)
        run    == CHOOSE k \in 0..(n - 1) :
                     /\ \A i \in 1..k : pieces[i] \in S
                     /\ k < n - 1 => pieces[k + 1] \notin S
    IN Join(SubSeq(pieces, run + 1, n), ":")

\* C8: applyVariantPrefix(p, t) is t when p is empty, and otherwise p
\* followed by t without its longest leading run of `segment:` pieces
\* whose segment is a segment of p.
C8_PrefixedAsSpecified ==
    pcPrefix \in {"applied", "reapplied"} =>
        /\ prefixed = IF variantPrefix = "" THEN utility
                      ELSE variantPrefix
                             \o WithoutLeadingRun(utility,
                                                  SegmentsOf(variantPrefix))
        /\ (variantPrefix = "hover:" /\ utility = "hover:w-0")
              => prefixed = "hover:w-0"
        /\ (variantPrefix = "dark:" /\ utility = "hover:w-0")
              => prefixed = "dark:hover:w-0"
        /\ (variantPrefix = "dark:hover:" /\ utility = "hover:w-0")
              => prefixed = "dark:hover:w-0"
        /\ (variantPrefix = "hover:" /\ utility = "before:w-0")
              => prefixed = "hover:before:w-0"

\* A prefix of two segments was applied to a utility that carries one of
\* them in front of a variant the prefix does not have.
C8_Witness ==
    /\ pcPrefix = "applied"
    /\ variantPrefix = "dark:hover:" /\ utility = "hover:before:w-0"
    /\ prefixed = "dark:hover:before:w-0"

\* C9: applying a canonical prefix to the result of applying it changes
\* nothing.
C9_ReapplyIsIdempotent ==
    pcPrefix = "reapplied" => reprefixed = prefixed

\* A prefix was applied twice to a utility that carried both its segments.
C9_Witness ==
    /\ pcPrefix = "reapplied"
    /\ variantPrefix = "dark:hover:" /\ utility = "hover:dark:w-0"
    /\ reprefixed = "dark:hover:w-0"

(* ------------------------------------------------------------------ *)
(* Properties of expandToken                                            *)
(* ------------------------------------------------------------------ *)

\* What the token of the state expands to when its name is the alias
\* `name`: each piece of the resolved value with the token's prefix
\* applied and its important marker in front, joined with single spaces.
ExpansionOf(parts, map) ==
    LET utilities == SplitWs(map[parts.name])
    IN Join([i \in 1..Len(utilities) |->
               parts.important
                 \o ApplyVariantPrefix(parts.prefix, utilities[i])], " ")

\* C10 as stated: a token made of an optional "!", a variant prefix and a
\* CamelCase name that is a key of the ResolvedAliasMap expands to the
\* alias's utilities, prefixed and marked.
C10_KeyTokenExpands ==
    (/\ pcToken = "expanded"
     /\ IsCamelCase(tokenParts.name)
     /\ tokenParts.name \in DOMAIN aliases)
        => tokenResult = ExpansionOf(tokenParts, aliases)

\* The candidate name of a class token: the token without one leading "!",
\* and of that the part after the last colon.
CandidateName(tok) ==
    LET stripped == IF Len(tok) >= 1 /\ CharAt(tok, 1) = "!"
                    THEN SubSeq(tok, 2, Len(tok)) ELSE tok
        pieces   == SplitOn(stripped, ":")
    IN pieces[Len(pieces)]

\* C11: a class token whose candidate name fails the AliasName pattern or
\* is no key of the ResolvedAliasMap is returned verbatim; so is "-Button"
\* for every map.
C11_NonAliasVerbatim ==
    pcToken = "expanded" =>
        /\ (\/ ~IsCamelCase(CandidateName(token))
            \/ CandidateName(token) \notin DOMAIN aliases)
              => tokenResult = token
        /\ tokenParts.name = "-Button" => tokenResult = token

\* "lg:!Button" was handed to expandToken with Button in the map: the
\* candidate name "!Button" fails the pattern and the token came back.
C11_Witness ==
    /\ pcToken = "expanded"
    /\ token = "lg:!Button" /\ "Button" \in DOMAIN aliases
    /\ tokenResult = "lg:!Button"

(* ------------------------------------------------------------------ *)
(* Properties of expandClassString                                      *)
(* ------------------------------------------------------------------ *)

RECURSIVE WordsFrom(_, _, _)
WordsFrom(s, i, cur) ==
    IF i > Len(s) THEN (IF cur = "" THEN <<>> ELSE <<cur>>)
    ELSE IF CharAt(s, i) \in Whitespace
         THEN (IF cur = "" THEN <<>> ELSE <<cur>>) \o WordsFrom(s, i + 1, "")
         ELSE WordsFrom(s, i + 1, cur \o CharAt(s, i))

\* The tokens of a whitespace-delimited string: its maximal runs of
\* characters that are not whitespace, in order.
WordsOf(s) == WordsFrom(s, 1, "")

RECURSIVE IsSubsequence(_, _)
\* Whether the elements of a occur in b in the same relative order.
IsSubsequence(a, b) ==
    IF Len(a) = 0 THEN TRUE
    ELSE IF Len(b) = 0 THEN FALSE
    ELSE IF Head(a) = Head(b) THEN IsSubsequence(Tail(a), Tail(b))
    ELSE IsSubsequence(a, Tail(b))

\* A token that is a recognized alias reference: its candidate name has
\* the AliasName pattern and is a key of the ResolvedAliasMap.
Recognized(tok) ==
    IsCamelCase(CandidateName(tok)) /\ CandidateName(tok) \in DOMAIN aliases

\* C12 as stated: expandClassString returns the per-token results in input
\* order joined by single spaces; the output never has fewer tokens than
\* the input, and every input token that is no recognized alias reference
\* appears verbatim in the output in the same relative order.
C12_TokensKept ==
    pcClass \in {"expanded", "compared"} =>
        LET given == WordsOf(classString)
            got   == WordsOf(classResult)
        IN /\ classResult =
                 Join([i \in 1..Len(given) |-> ExpandToken(given[i], aliases)],
                      " ")
           /\ Len(got) >= Len(given)
           /\ IsSubsequence(SelectSeq(given, LAMBDA t : ~Recognized(t)), got)

\* A token of the class string that expandToken did not return as it is.
WasExpanded(tok) == ExpandToken(tok, aliases) # tok

\* C13: the string expandClassString returns is the same whatever the
\* auxiliary set held, and after the call the set holds what it held
\* before and exactly the tokens, as written, that were expanded.
C13_SetIsAuxiliary ==
    /\ pcClass = "compared" => classResultOther = classResult
    /\ pcClass \in {"expanded", "compared"} =>
          expandedAliases =
              expandedBefore
                \cup {t \in Range(WordsOf(classString)) : WasExpanded(t)}

\* A class string with a prefixed alias token, a key returned verbatim
\* and a utility was expanded twice, the first time with a set that held
\* "Button": the set gained the prefixed token only.
C13_Witness ==
    /\ pcClass = "compared"
    /\ expandedBefore = {"Button"}
    /\ \E sep \in ClassSeparators : classString = "lg:Button" \o sep \o "px-4"
    /\ expandedAliases = {"Button", "lg:Button"}
    /\ classResultOther = classResult

(* ------------------------------------------------------------------ *)
(* Properties of collectVariantAliases                                  *)
(* ------------------------------------------------------------------ *)

\* A lowercase segment: a lower-case letter, then lower-case letters,
\* digits and hyphens.
IsKebabSegment(p) ==
    /\ Len(p) >= 1
    /\ CharAt(p, 1) \in Lower
    /\ \A i \in 2..Len(p) : CharAt(p, i) \in Kebab

\* The name a usage ends with: its last piece without a leading "!".
UsageName(t) ==
    LET pieces == SplitOn(t, ":")
        last   == pieces[Len(pieces)]
    IN IF Len(last) >= 1 /\ CharAt(last, 1) = "!"
       THEN SubSeq(last, 2, Len(last)) ELSE last

\* The variant prefix of a usage: its segments, each with its colon.
UsagePrefix(t) ==
    LET pieces == SplitOn(t, ":")
    IN Join([i \in 1..(Len(pieces) - 1) |-> pieces[i] \o ":"], "")

\* The string t is, as a whole, one or more lowercase `segment:` pieces,
\* an optional "!" and a CamelCase name.
IsUsage(t) ==
    LET pieces == SplitOn(t, ":")
    IN /\ Len(pieces) >= 2
       /\ \A i \in 1..(Len(pieces) - 1) : IsKebabSegment(pieces[i])
       /\ IsCamelCase(UsageName(t))

\* The positions b such that the characters a..b of s are a usage.
UsageEnds(s, a) ==
    IF CharAt(s, a) \notin Lower THEN {}
    ELSE {b \in (a + 2)..Len(s) :
            CharAt(s, b) \in AlphaNum /\ IsUsage(SubSeq(s, a, b))}

Max(S) == CHOOSE x \in S : \A y \in S : y <= x

Min(S) == CHOOSE x \in S : \A y \in S : x <= y

RECURSIVE MatchesFrom(_, _)
\* The matches of the pattern in s from position p on, in order: the
\* leftmost usage, as long as it can be, then the matches after it.
MatchesFrom(s, p) ==
    LET starts == {a \in p..Len(s) : UsageEnds(s, a) # {}}
    IN IF starts = {} THEN <<>>
       ELSE LET a == Min(starts)
                b == Max(UsageEnds(s, a))
            IN <<SubSeq(s, a, b)>> \o MatchesFrom(s, b + 1)

\* C14: a call of collectVariantAliases only adds to the caller's set and
\* leaves the alias map alone; for every match whose name is a key it adds
\* applyVariantPrefix(prefix, util) for every utility of the alias, the
\* match being split at its last colon; and it adds nothing else, so that
\* matches whose name is no key leave the set as it was.
C14_OnlyAdds ==
    [][(pcScan = "input" /\ pcScan' = "scanned") =>
         LET ms    == MatchesFrom(code, 1)
             known == {i \in 1..Len(ms) : UsageName(ms[i]) \in DOMAIN aliases}
         IN /\ variantUtilities \subseteq variantUtilities'
            /\ aliases' = aliases
            /\ \A i \in known :
                  \A u \in Range(WordsOf(aliases[UsageName(ms[i])])) :
                     ApplyVariantPrefix(UsagePrefix(ms[i]), u)
                        \in variantUtilities'
            /\ variantUtilities' \subseteq
                  variantUtilities \cup
                  UNION {{ApplyVariantPrefix(UsagePrefix(ms[i]), u) :
                            u \in Range(SplitWs(aliases[UsageName(ms[i])]))} :
                         i \in known}
            /\ known = {} => variantUtilities' = variantUtilities]_vars

\* A text with a chained usage of an alias whose second utility carries
\* one of the variants, and a usage of an unknown name, was scanned: the
\* set kept what it held and gained the two prefixed utilities.
C14_Witness ==
    /\ pcScan = "scanned"
    /\ code = "class='dark:hover:Button lg:Unknown'"
    /\ variantUtilities = {"lg:text-sm", "md:flex", "dark:hover:bg-primary",
                           "dark:hover:bg-primary/90"}

\* C15 as stated: every match the scanner treats as a usage of a known
\* alias is, taken as a class token, expanded by expandToken, with the
\* same variant prefix and the same alias name.
C15_ScannerGrammarIsExpanders ==
    pcScan = "scanned" =>
        \A i \in 1..Len(found) :
            Truthy(aliases, MatchAliasName(found[i])) =>
                /\ IsKnownAlias(found[i], aliases)
                /\ TokenVariantPrefix(found[i]) = MatchVariantPrefix(found[i])
                /\ TokenAliasName(found[i]) = MatchAliasName(found[i])

(* ------------------------------------------------------------------ *)
(* Properties of the parser                                             *)
(* ------------------------------------------------------------------ *)

\* A nested sub-block: a rule whose selector starts with "&".
IsSubBlock(node) ==
    node.type = "rule" /\ Len(node.text) >= 1 /\ CharAt(node.text, 1) = "&"

\* The suffix of a sub-block: its selector without the "&".
SuffixOf(node) == SubSeq(node.text, 2, Len(node.text))

RECURSIVE BlocksIn(_, _, _)
\* The blocks of a document in the order they are written: the @expand
\* blocks and, below each, the sub-blocks, each with its composed name
\* (the names of its ancestors' chain and its suffix), its children and
\* the names of its ancestors.
BlocksIn(nodes, parentName, ancestors) ==
    IF Len(nodes) = 0 THEN <<>>
    ELSE LET node == Head(nodes)
             name == IF node.type = "expand" THEN node.text
                     ELSE parentName \o SuffixOf(node)
         IN (IF node.type = "expand" \/ IsSubBlock(node)
             THEN <<[name |-> name, nodes |-> node.nodes,
                     ancestors |-> ancestors]>>
                    \o BlocksIn(node.nodes, name, ancestors \cup {name})
             ELSE <<>>)
              \o BlocksIn(Tail(nodes), parentName, ancestors)

\* The blocks of the document of the state.
Blocks == BlocksIn(root, "", {})

RECURSIVE DirectWords(_)
\* The tokens of the direct @apply statements among nodes, in order.
DirectWords(nodes) ==
    IF Len(nodes) = 0 THEN <<>>
    ELSE (IF Head(nodes).type = "apply" THEN WordsOf(Head(nodes).text)
          ELSE <<>>) \o DirectWords(Tail(nodes))

\* Whether a block has a direct @apply statement.
HasDirect(block) ==
    \E i \in 1..Len(block.nodes) : block.nodes[i].type = "apply"

\* The parser has returned a map.
Returned == pcParse = "parsed" /\ extracted.kind = "returned"

\* C16: every key of a map the parser returns has the AliasName pattern;
\* if a composed name, top-level or nested at any depth, with or without
\* direct statements, fails the pattern, the parser throws the naming
\* error with that name (the first such name of the document) and
\* returns no map.
C16_KeysAreAliasNames ==
    pcParse = "parsed" =>
        LET bad == {i \in 1..Len(Blocks) : ~IsCamelCase(Blocks[i].name)}
        IN /\ extracted.kind = "returned" =>
                 \A k \in DOMAIN extracted.aliases : IsCamelCase(k)
           /\ bad # {} => /\ extracted.kind = "threw"
                          /\ extracted.name = Blocks[Min(bad)].name
           /\ bad = {} => extracted.kind = "returned"

\* A document whose only invalid name is composed two levels down, in a
\* sub-block without statements, was parsed: the error carries that name.
C16_Witness ==
    /\ pcParse = "parsed"
    /\ extracted = [kind |-> "threw", name |-> "ButtonMd-md"]
    /\ Len(Blocks) = 3
    /\ ~HasDirect(Blocks[3])

\* The number of elements of seq equal to x.
Count(seq, x) == Cardinality({i \in 1..Len(seq) : seq[i] = x})

RECURSIVE OwnWords(_, _)
\* The tokens of the direct statements of the blocks named `name` that
\* are not nested in a block of that name.
OwnWords(blocks, name) ==
    IF Len(blocks) = 0 THEN <<>>
    ELSE (IF Head(blocks).name = name /\ name \notin Head(blocks).ancestors
          THEN DirectWords(Head(blocks).nodes) ELSE <<>>)
            \o OwnWords(Tail(blocks), name)

\* C17 as stated: the entry of a name holds the tokens of the direct
\* statements of the blocks declared with that name and no others: no
\* token of a sub-block is in the entry of one of its ancestors.
C17_NoLeakIntoAncestor ==
    Returned =>
        \A name \in DOMAIN extracted.aliases :
            LET entry == WordsOf(extracted.aliases[name])
                own   == OwnWords(Blocks, name)
            IN /\ Len(entry) = Len(own)
               /\ \A t \in Range(entry) : Count(entry, t) = Count(own, t)

\* C18 as stated: a name has an entry only if a block declared with that
\* name (not nested in a block of that name) has a direct statement, and
\* every block that has direct statements is registered under its
\* composed name.
C18_NamespaceOnlyBlocks ==
    Returned =>
        /\ \A name \in DOMAIN extracted.aliases :
              \E i \in 1..Len(Blocks) :
                 /\ Blocks[i].name = name
                 /\ name \notin Blocks[i].ancestors
                 /\ HasDirect(Blocks[i])
        /\ \A i \in 1..Len(Blocks) :
              HasDirect(Blocks[i]) => Blocks[i].name \in DOMAIN extracted.aliases

RECURSIVE StatementsIn(_, _)
\* The @apply statements of the blocks of a document in the order they
\* are written, each with the name its block composes.
StatementsIn(nodes, parentName) ==
    IF Len(nodes) = 0 THEN <<>>
    ELSE LET node == Head(nodes)
         IN (IF node.type = "apply"
             THEN <<[name |-> parentName, params |-> node.text]>>
             ELSE IF node.type = "expand"
             THEN StatementsIn(node.nodes, node.text)
             ELSE IF IsSubBlock(node)
             THEN StatementsIn(node.nodes, parentName \o SuffixOf(node))
             ELSE <<>>)
              \o StatementsIn(Tail(nodes), parentName)

\* The params of the statements that compose `name`, in document order.
ParamsFor(name) ==
    LET all  == StatementsIn(root, "")
        mine == SelectSeq(all, LAMBDA st : st.name = name)
    IN [i \in 1..Len(mine) |-> mine[i].params]

RECURSIVE Flatten(_)
\* The token lists of a sequence of params, one after the other.
Flatten(params) ==
    IF Len(params) = 0 THEN <<>>
    ELSE WordsOf(Head(params)) \o Flatten(Tail(params))

\* C19 as stated: the entry of a name is the concatenation, in document
\* order, of the token lists of all the statements that compose the
\* name, joined with single spaces, nothing dropped or deduplicated.
C19_MergedInDocumentOrder ==
    Returned =>
        \A name \in DOMAIN extracted.aliases :
            /\ WordsOf(extracted.aliases[name]) = Flatten(ParamsFor(name))
            /\ (\A i \in 1..Len(ParamsFor(name)) : ParamsFor(name)[i] # "")
                  => extracted.aliases[name] = Join(ParamsFor(name), " ")

(* ------------------------------------------------------------------ *)
(* Properties of the Babel plugin                                       *)
(* ------------------------------------------------------------------ *)

\* What an initialisation without a cache hands to the visitor for the
\* content and the mergerFn of the state.
Uncached ==
    LET extraction == ExtractFromRoot(css)
    IN IF extraction.kind = "threw" THEN extraction
       ELSE Expand(extraction.aliases, optionsMergerFn)

\* C20 as stated: after any sequence of initialisations, the alias map
\* handed to the visitor is expand(parse(current content), the mergerFn
\* of that initialisation).
C20_CacheIsTransparent ==
    pcBabel = "initialised" => visitorAliases = Uncached

(* ------------------------------------------------------------------ *)
(* Properties of one run of expand: the states of a name               *)
(* ------------------------------------------------------------------ *)

\* The state of an alias name in the run: memoized, in the in-progress
\* set, or neither.
NameState(k) ==
    IF k \in DOMAIN expanded THEN "resolved"
    ELSE IF InSeq(resolving, k) THEN "in-progress"
    ELSE "unvisited"

\* What holds in every state of a run.
RunInvariant ==
    /\ \A k \in Names : ~(InSeq(resolving, k) /\ k \in DOMAIN expanded)
    /\ pc = "loop" =>
          resolving = [i \in 1..Len(frames) |-> frames[i].name]
    /\ pc = "done" =>
          /\ resolving = <<>>
          /\ DOMAIN expanded = DOMAIN rawAliases

\* What holds of every step of a run.
RunStep ==
    \A k \in Names :
       /\ k \in DOMAIN expanded =>
             /\ k \in DOMAIN expanded'
             /\ expanded'[k] = expanded[k]
       /\ NameState(k)' # NameState(k) =>
             <<NameState(k), NameState(k)'>> \in
                 {<<"unvisited", "in-progress">>, <<"in-progress", "resolved">>}

\* C28: during one run of expand a name moves only from unvisited to
\* in-progress to resolved: it is never both in the in-progress set and
\* memoized, a memoized value is never overwritten, the in-progress set
\* is the chain of names of the active calls of resolve, and when expand
\* returns the in-progress set is empty and the resolved map has exactly
\* the keys of the raw map.
C28_NameLifecycle ==
    /\ []RunInvariant
    /\ [][pc = "loop" => RunStep]_vars

\* A run with two nested calls of resolve active and a value memoized.
C28_Witness ==
    /\ pc = "loop"
    /\ Len(frames) >= 2
    /\ DOMAIN expanded # {}
    /\ RunInvariant

(* ------------------------------------------------------------------ *)
(* Properties of the scanner against expandToken                        *)
(* ------------------------------------------------------------------ *)

\* A utility without its important marker.
Unmarked(u) == IF StartsWith(u, "!") THEN SliceFrom(u, 1) ELSE u

\* C26 as stated: for a class token with a variant prefix that
\* expandToken expands, scanning a text that contains the token adds to
\* the set each utility expandToken produced for it, the important marker
\* removed.
C26_ScannerCoversExpandToken ==
    (/\ pcToken = "expanded" /\ pcScan = "scanned"
     /\ TokenVariantPrefix(token) # ""
     /\ tokenResult # token) =>
        \A u \in Range(WordsOf(tokenResult)) :
            Unmarked(u) \in variantUtilities

(* ------------------------------------------------------------------ *)
(* Properties of the expansion against a resolved map                   *)
(* ------------------------------------------------------------------ *)

\* C27 as stated: against the map expand derives from a map of the
\* parser, expandClassString returns its own output unchanged: no token
\* of an expanded class string is an expandable alias reference.
C27_ExpansionIsComplete ==
    pcClass = "again" =>
        /\ classResultOther = classResult
        /\ \A t \in Range(WordsOf(classResult)) : ExpandToken(t, aliases) = t

(* ------------------------------------------------------------------ *)
(* Properties of expandAliases                                          *)
(* ------------------------------------------------------------------ *)

\* C30 as stated: on every alias map, cyclic or not, expandAliases
\* returns a map with an entry for every key of the input, and a
\* reference that closes a cycle contributes no tokens: no token of a
\* returned value is a key of the input.
C30_CyclesAreTolerated ==
    pcLegacy = "returned" =>
        /\ DOMAIN legacyExpanded = DOMAIN legacyAliases
        /\ \A k \in DOMAIN legacyExpanded :
              \A t \in Range(WordsOf(legacyExpanded[k])) :
                  t \notin DOMAIN legacyAliases

(* ------------------------------------------------------------------ *)
(* Properties of stripExpandBlocks                                      *)
(* ------------------------------------------------------------------ *)

\* Whether a piece is the head of an @expand at-rule.
IsExpandHead(piece) == Len(piece) >= 7 /\ Slice(piece, 0, 7) = "@expand"

RECURSIVE BlockClose(_, _, _)
\* The block opened before piece i, depth blocks being open there: the
\* index of the piece that closes it, Len(pieces) if nothing does.
BlockClose(pieces, i, depth) ==
    IF i > Len(pieces) THEN Len(pieces)
    ELSE IF pieces[i] = "{" THEN BlockClose(pieces, i + 1, depth + 1)
    ELSE IF pieces[i] = "}"
         THEN IF depth = 1 THEN i ELSE BlockClose(pieces, i + 1, depth - 1)
    ELSE BlockClose(pieces, i + 1, depth)

\* Whether the at-rule whose head is piece i has a block: the piece after
\* the head opens one.
HasBlock(pieces, i) == i < Len(pieces) /\ pieces[i + 1] = "{"

RECURSIVE OutsideBlocks(_, _)
\* The pieces from i on that are outside every @expand block, in order.
OutsideBlocks(pieces, i) ==
    IF i > Len(pieces) THEN <<>>
    ELSE IF IsExpandHead(pieces[i]) /\ HasBlock(pieces, i)
         THEN OutsideBlocks(pieces, BlockClose(pieces, i + 2, 1) + 1)
    ELSE <<pieces[i]>> \o OutsideBlocks(pieces, i + 1)

RECURSIVE OutsideAtRules(_, _)
\* The pieces from i on that are outside every @expand at-rule, in order:
\* outside the blocks, and the head of an @expand without a block and the
\* semicolon that ends it left out as well.
OutsideAtRules(pieces, i) ==
    IF i > Len(pieces) THEN <<>>
    ELSE IF IsExpandHead(pieces[i])
         THEN IF HasBlock(pieces, i)
              THEN OutsideAtRules(pieces, BlockClose(pieces, i + 2, 1) + 1)
              ELSE IF i < Len(pieces) /\ pieces[i + 1] = ";"
                   THEN OutsideAtRules(pieces, i + 2)
                   ELSE OutsideAtRules(pieces, i + 1)
    ELSE <<pieces[i]>> \o OutsideAtRules(pieces, i + 1)

RECURSIVE KeptIn(_, _, _, _)
\* Whether the characters of a from i on occur in b from j on, in order.
KeptIn(a, i, b, j) ==
    IF i > Len(a) THEN TRUE
    ELSE IF j > Len(b) THEN FALSE
    ELSE IF CharAt(a, i) = CharAt(b, j) THEN KeptIn(a, i + 1, b, j + 1)
    ELSE KeptIn(a, i, b, j + 1)

\* C23 as stated: the text of each @expand block, from `@expand` to its
\* matching closing brace, is removed, the output contains no `@expand`,
\* and the text outside the @expand blocks is kept unchanged and in
\* order. What becomes of the head of an @expand at-rule that has no
\* block is left open: the output lies between the text outside the
\* @expand at-rules and the text outside the @expand blocks.
C23_StripsExactlyTheBlocks ==
    pcStrip = "stripped" =>
        /\ ~Includes(stripResult, "@expand")
        /\ KeptIn(Concat(OutsideAtRules(stripPieces, 1)), 1, stripResult, 1)
        /\ KeptIn(stripResult, 1, Concat(OutsideBlocks(stripPieces, 1)), 1)

(* ------------------------------------------------------------------ *)
(* Properties of the Vite plugin                                        *)
(* ------------------------------------------------------------------ *)

\* The last call made to the plugin.
LastCall == calls[Len(calls)]

\* C21: handleHotUpdate calls server.restart, once, and returns the empty
\* list if and only if a dev server has been configured and the changed
\* file is tracked when the update arrives; in every other case it does
\* not restart and returns ctx.modules.
C21_RestartIffTracked ==
    [][(Len(calls') = Len(calls) + 1
          /\ calls'[Len(calls')].op = "handleHotUpdate") =>
         IF server # "null" /\ calls'[Len(calls')].id \in expandCssFiles
         THEN restartCalls' = 1 /\ hotReturn' = "none"
         ELSE restartCalls' = 0 /\ hotReturn' = "ctx.modules"]_vars

\* A hot update for a tracked file that restarted the server, after one
\* for a file that was not tracked.
C21_Witness ==
    /\ Len(calls) >= 3
    /\ LastCall.op = "handleHotUpdate"
    /\ restartCalls = 1 /\ hotReturn = "none"
    /\ \E i \in 1..Len(calls) - 1 :
          /\ calls[i].op = "transform" /\ calls[i].id = LastCall.id
          /\ calls[i].expand

\* Whether the call takes the id out of the tracked set: a restart of the
\* server, a transform of the id as CSS without @expand, or a hot update
\* that finds the file gone (a dev server being configured: without one
\* the hot update does nothing).
Untracks(call, id) ==
    \/ call.op = "configureServer"
    \/ /\ call.op = "transform" /\ call.id = id
       /\ EndsWith(id, ".css") /\ ~call.expand
    \/ /\ call.op = "handleHotUpdate" /\ call.id = id
       /\ call.gone /\ call.served

\* Whether, by the calls made, the id is tracked: some transform of it
\* was of `.css` content with @expand, and nothing has untracked it since.
TrackedByCalls(id) ==
    \E i \in 1..Len(calls) :
       /\ calls[i].op = "transform" /\ calls[i].id = id
       /\ EndsWith(id, ".css") /\ calls[i].expand
       /\ \A j \in (i + 1)..Len(calls) : ~Untracks(calls[j], id)

\* C25: after any sequence of configureServer, transform and
\* handleHotUpdate calls a file id is tracked if and only if its most
\* recent transform since the last configureServer was of `.css` content
\* containing `@expand` and no hot update has removed it since for a file
\* that no longer exists.
C25_TrackedSet ==
    \A id \in ModuleIds : id \in expandCssFiles <=> TrackedByCalls(id)

\* A file tracked again after a restart had emptied the set.
C25_Witness ==
    /\ expandCssFiles # {}
    /\ \E i \in 1..Len(calls) : calls[i].op = "configureServer"
    /\ \E i \in 1..Len(calls) :
          /\ calls[i].op = "transform" /\ calls[i].expand
          /\ \E j \in (i + 1)..Len(calls) : calls[j].op = "configureServer"
    /\ C25_TrackedSet

\* C29 as stated: the utility list a transform writes into
\* `@source inline(...)` holds only utilities of the aliases resolved
\* from that transform's CSS and the variant-prefixed utilities the
\* sources give with those aliases.
C29_InlineIsOfThisCss ==
    (calls # <<>> /\ LastCall.op = "transform" /\ transformed.kind = "code") =>
        \A u \in Range(transformed.inline) :
            u \in BaseUtilities(transformed.aliases)
                    \cup ScanSourceFiles(transformed.aliases, {})

(* ------------------------------------------------------------------ *)
(* Properties of the PostCSS plugin                                     *)
(* ------------------------------------------------------------------ *)

RECURSIVE ApplyWords(_)
\* The utilities and alias names that occur in the @apply statements of a
\* document.
ApplyWords(nodes) ==
    IF Len(nodes) = 0 THEN {}
    ELSE (IF Head(nodes).type = "apply"
          THEN Range(WordsOf(Head(nodes).text))
          ELSE ApplyWords(Head(nodes).nodes))
         \cup ApplyWords(Tail(nodes))

\* Whether the listed utility t is the utility u, bare or behind variants.
IsUtility(t, u) == t = u \/ EndsWith(t, ":" \o u)

\* C22: each run of the PostCSS plugin is independent: after a version of
\* a document and then another one are processed, the output for the
\* later one contains no utility that occurs only in the earlier one.
C22_RunsAreIndependent ==
    (Len(runs) >= 2 /\ processed.kind = "returned") =>
        \A i \in 1..Len(runs) - 1 :
           \A u \in ApplyWords(runs[i]) \ ApplyWords(runs[Len(runs)]) :
              \A t \in processed.inline : ~IsUtility(t, u)

\* Two versions with different utilities were processed, and the later
\* output lists the utilities of the later version.
C22_Witness ==
    /\ Len(runs) >= 2
    /\ processed.kind = "returned" /\ processed.directive
    /\ "b" \in processed.inline /\ "lg:b" \in processed.inline
    /\ "a" \in ApplyWords(runs[Len(runs) - 1])
    /\ C22_RunsAreIndependent

\* The last document processed, as the parser and the resolver read it.
LastResolved == Expand(ExtractFromCSS(runs[Len(runs)]).aliases, PluginMergerFn)

\* C24 as stated: whenever the CSS defines an alias with a utility, the
\* output holds an `@source inline(...)` directive that lists every
\* utility of every resolved alias, and no @expand block is left.
C24_DirectiveAndNoExpand ==
    (/\ runs # <<>> /\ processed.kind = "returned"
     /\ Includes(Render(runs[Len(runs)]), "@expand")
     /\ BaseUtilities(LastResolved.aliases) # {}) =>
        /\ processed.directive
        /\ BaseUtilities(LastResolved.aliases) \subseteq processed.inline
        /\ \A i \in 1..Len(processed.nodes) :
              processed.nodes[i].type # "expand"

=============================================================================
